---- MODULE Spec2Model ----
(***************************************************************************)
(* SPFlow: probabilistic circuits (sum-product networks).                  *)
(*                                                                         *)
(* The model keeps an arena ("heap") of module objects addressed by their  *)
(* position.  A circuit is built by constructor calls, and then the        *)
(* top-level operations (log_likelihood, marginalize, retrieve_params) are *)
(* applied to it.  Real numbers are exact rationals <<n, d>>; a value in   *)
(* log-space is the record [lg |-> q] standing for the real number log(q), *)
(* so that log(1) = 0 is [lg |-> <<1, 1>>] and log(0) = -inf is            *)
(* [lg |-> <<0, 1>>].                                                       *)
(***************************************************************************)
EXTENDS Integers, Sequences, FiniteSets, TLC

VARIABLES heap, script, pc, ctx, data, out

vars == <<heap, script, pc, ctx, data, out>>

----------------------------------------------------------------------------
(* Bounds *)

\* largest number of rows of a data batch
MaxRows == 2
\* data entries are NaN or one of 0..MaxVal
MaxVal == 2

----------------------------------------------------------------------------
(* Numbers *)

\* the missing-value sentinel (np.nan / torch.nan) of a data entry
NaN == -1

Abs(x) == IF x < 0 THEN 0 - x ELSE x

RECURSIVE GCD(_, _)
GCD(a, b) == IF b = 0 THEN a ELSE GCD(b, a % b)

Rat(n, d) ==
    IF n = 0 THEN <<0, 1>>
    ELSE LET g == GCD(Abs(n), d) IN <<n \div g, d \div g>>

RAdd(a, b) == Rat(a[1] * b[2] + b[1] * a[2], a[2] * b[2])
RSub(a, b) == Rat(a[1] * b[2] - b[1] * a[2], a[2] * b[2])
RMul(a, b) == Rat(a[1] * b[1], a[2] * b[2])
RDiv(a, b) == Rat(a[1] * b[2], a[2] * b[1])
RLess(a, b) == a[1] * b[2] < b[1] * a[2]
RLeq(a, b) == a[1] * b[2] <= b[1] * a[2]

RZero == <<0, 1>>
ROne == <<1, 1>>

\* floating point values that are not numbers of the rationals: nan is <<0, 0>>,
\* inf is <<1, 0>> and -inf is <<-1, 0>>
NaNQ == <<0, 0>>
Inf == <<1, 0>>
isnan(x) == x = NaNQ
isfinite(x) == x[2] # 0
\* x <= 0.0 of a float: False for nan
leq_zero(x) == ~isnan(x) /\ RLeq(x, RZero)

RECURSIVE RSum(_)
RSum(s) == IF s = <<>> THEN RZero ELSE RAdd(Head(s), RSum(Tail(s)))

RECURSIVE RProd(_)
RProd(s) == IF s = <<>> THEN ROne ELSE RMul(Head(s), RProd(Tail(s)))

\* log and exp between the linear and the log domain
Log(q) == [lg |-> q]
Exp(x) == x.lg
\* the log-space value 0.0
LogZero == Log(ROne)
\* x + y in log-space
LogAdd(x, y) == Log(RMul(Exp(x), Exp(y)))
\* a product that adds its inputs in the linear domain instead
LogRowSum_linear(row) == Log(RSum([i \in 1..Len(row) |-> Exp(row[i])]))
\* torch.sum(row): the sum of a row of log-space values
LogRowSum(row) == Log(RProd([i \in 1..Len(row) |-> Exp(row[i])]))
\* torch.logsumexp(row)
LogSumExp(row) == Log(RSum([i \in 1..Len(row) |-> Exp(row[i])]))

\* torch.isclose(q, 1.0) with the default relative tolerance 1e-05
IsCloseToOne(q) == Abs(q[1] - q[2]) * 100000 <= q[2]

----------------------------------------------------------------------------
(* Sequences *)

Range(s) == {s[i] : i \in 1..Len(s)}

RECURSIVE Flatten(_)
Flatten(ss) == IF ss = <<>> THEN <<>> ELSE Head(ss) \o Flatten(Tail(ss))

RECURSIVE SortedSeq(_)
SortedSeq(S) ==
    IF S = {} THEN <<>>
    ELSE LET m == CHOOSE x \in S : \A y \in S : x <= y
         IN <<m>> \o SortedSeq(S \ {m})

\* the subsequence of s at the positions that satisfy keep, in order
RECURSIVE FilterIdx(_, _, _)
FilterIdx(s, keep, i) ==
    IF i > Len(s) THEN <<>>
    ELSE (IF keep[i] THEN <<s[i]>> ELSE <<>>) \o FilterIdx(s, keep, i + 1)

----------------------------------------------------------------------------
(* Scope: query and evidence variables *)

Scope(query, evidence) == [query |-> query, evidence |-> evidence]
EmptyScope == Scope(<<>>, <<>>)

equal_query(s, t) == Range(s.query) = Range(t.query)
isdisjoint(s, t) == Range(s.query) \cap Range(t.query) = {}
union(s, t) ==
    Scope(SortedSeq(Range(s.query) \cup Range(t.query)),
          SortedSeq(Range(s.evidence) \cup Range(t.evidence)))

----------------------------------------------------------------------------
(* Module objects *)

\* no object
None == 0

\* a cond_f attribute or argument: None, a callable returning the dictionary ret,
\* or a list of callables, callable j returning the dictionary ret[j]
NoDict == [x \in {} |-> 0]
NoCondF == [set |-> FALSE, list |-> FALSE, ret |-> NoDict, rets |-> <<>>]
CondF(ret) == [set |-> TRUE, list |-> FALSE, ret |-> ret, rets |-> <<>>]
CondFList(rets) == [set |-> TRUE, list |-> TRUE, ret |-> NoDict, rets |-> rets]

MkModule(kind, scopes_out, children, weights_aux, params, cond_f) ==
    [kind |-> kind, scopes_out |-> scopes_out, children |-> children,
     weights_aux |-> weights_aux, params |-> params, cond_f |-> cond_f]

n_out(m) == Len(m.scopes_out)

\* the scope of a node, or the joint scope of a layer's outputs
RECURSIVE JoinScopes(_)
JoinScopes(ss) ==
    IF ss = <<>> THEN EmptyScope ELSE union(Head(ss), JoinScopes(Tail(ss)))

scope(m) == IF Len(m.scopes_out) = 1 THEN m.scopes_out[1] ELSE JoinScopes(m.scopes_out)

\* all output scopes of a list of children, in child order
ChildScopes(h, children) == Flatten([i \in 1..Len(children) |-> h[children[i]].scopes_out])

n_in(h, children) == Len(ChildScopes(h, children))

----------------------------------------------------------------------------
(* Constructors.  Each returns [ok, heap, id]: on success the new object is *)
(* appended to the heap; a raised ValueError is ok = FALSE, heap unchanged. *)

Raised(h) == [ok |-> FALSE, heap |-> h, id |-> None]
Created(h, m) == [ok |-> TRUE, heap |-> Append(h, m), id |-> Len(h) + 1]

\* a weights argument: ndim = 1 is a list of numbers, ndim = 2 a list of rows
W1(v) == [ndim |-> 1, v |-> v]
W2(v) == [ndim |-> 2, v |-> v]

proj_convex_to_real(v) == [i \in 1..Len(v) |-> Log(v[i])]

proj_real_to_convex(aux) ==
    LET total == RSum([i \in 1..Len(aux) |-> Exp(aux[i])])
    IN [i \in 1..Len(aux) |-> RDiv(Exp(aux[i]), total)]

\* the weights property of a sum node (1-D) or of a sum layer (one row per node)
weights(m) ==
    IF m.kind = "Sum" THEN proj_real_to_convex(m.weights_aux)
    ELSE [j \in 1..Len(m.weights_aux) |-> proj_real_to_convex(m.weights_aux[j])]

\* Bernoulli.__init__ and set_params
Bernoulli(h, sc, p) ==
    IF Len(sc.query) # 1 THEN Raised(h)
    ELSE IF Len(sc.evidence) # 0 THEN Raised(h)
    ELSE IF RLess(p, RZero) \/ RLess(ROne, p) THEN Raised(h)
    ELSE Created(h, MkModule("Leaf", <<sc>>, <<>>, <<>>, <<p>>, NoCondF))

\* the scope loop of SPNSumNode.__init__ and SumLayer.__init__
RECURSIVE SumScope(_, _, _)
SumScope(ss, i, acc) ==
    IF i > Len(ss) THEN [ok |-> TRUE, scope |-> acc]
    ELSE IF i > 1 /\ ~equal_query(acc, ss[i]) THEN [ok |-> FALSE, scope |-> acc]
    ELSE SumScope(ss, i + 1, IF i = 1 THEN union(ss[1], ss[1]) ELSE union(acc, ss[i]))

\* a variant of the scope loop that compares each scope with the first one only
RECURSIVE ProductScope_first(_, _, _)
ProductScope_first(ss, i, acc) ==
    IF i > Len(ss) THEN [ok |-> TRUE, scope |-> acc]
    ELSE IF i > 1 /\ ~isdisjoint(ss[1], ss[i]) THEN [ok |-> FALSE, scope |-> acc]
    ELSE ProductScope_first(ss, i + 1, union(acc, ss[i]))

\* the scope loop of SPNProductNode.__init__ / ProductNode.__init__
RECURSIVE ProductScope(_, _, _)
ProductScope(ss, i, acc) ==
    IF i > Len(ss) THEN [ok |-> TRUE, scope |-> acc]
    ELSE IF ~isdisjoint(acc, ss[i]) THEN [ok |-> FALSE, scope |-> acc]
    ELSE ProductScope(ss, i + 1, union(acc, ss[i]))

\* a variant of the weights setter that accepts weights of zero
SumWeightsOk_nonnegative(w, nin) ==
    /\ w.ndim = 1
    /\ \A i \in 1..Len(w.v) : RLeq(RZero, w.v[i])
    /\ IsCloseToOne(RSum(w.v))
    /\ Len(w.v) = nin

\* the weights setter of SPNSumNode
SumWeightsOk(w, nin) ==
    /\ w.ndim = 1
    /\ \A i \in 1..Len(w.v) : RLess(RZero, w.v[i])
    /\ IsCloseToOne(RSum(w.v))
    /\ Len(w.v) = nin

SPNSumNode(h, children, w) ==
    IF children = <<>> THEN Raised(h)
    ELSE LET sc == SumScope(ChildScopes(h, children), 1, EmptyScope)
         IN IF ~sc.ok THEN Raised(h)
            ELSE IF ~SumWeightsOk(w, n_in(h, children)) THEN Raised(h)
            ELSE Created(h, MkModule("Sum", <<sc.scope>>, children,
                                     proj_convex_to_real(w.v), <<>>, NoCondF))

SPNProductNode(h, children) ==
    IF children = <<>> THEN Raised(h)
    ELSE LET sc == ProductScope(ChildScopes(h, children), 1, EmptyScope)
         IN IF ~sc.ok THEN Raised(h)
            ELSE Created(h, MkModule("Product", <<sc.scope>>, children, <<>>, <<>>, NoCondF))

\* the weights setter of SumLayer: the rows stored in weights_aux, or <<>> on error
SumLayerWeights(w, nout, nin) ==
    LET rows == IF w.ndim = 1 THEN <<w.v>> ELSE w.v
    IN IF w.ndim # 1 /\ w.ndim # 2 THEN <<>>
       ELSE IF \E j \in 1..Len(rows) : \E i \in 1..Len(rows[j]) : ~RLess(RZero, rows[j][i])
            THEN <<>>
       ELSE IF \E j \in 1..Len(rows) : ~IsCloseToOne(RSum(rows[j])) THEN <<>>
       ELSE IF \E j \in 1..Len(rows) : Len(rows[j]) # nin THEN <<>>
       ELSE IF Len(rows) = 1 THEN [j \in 1..nout |-> proj_convex_to_real(rows[1])]
       ELSE IF Len(rows) = nout THEN [j \in 1..nout |-> proj_convex_to_real(rows[j])]
       ELSE <<>>

SumLayer(h, n_nodes, children, w) ==
    IF n_nodes < 1 THEN Raised(h)
    ELSE IF children = <<>> THEN Raised(h)
    ELSE LET aux == SumLayerWeights(w, n_nodes, n_in(h, children))
             sc == SumScope(ChildScopes(h, children), 1, EmptyScope)
         IN IF aux = <<>> THEN Raised(h)
            ELSE IF ~sc.ok THEN Raised(h)
            ELSE Created(h, MkModule("SumLayer", [j \in 1..n_nodes |-> sc.scope],
                                     children, aux, <<>>, NoCondF))

\* a leaf layer: one leaf node per scope, parameters set per node
LeafLayer(h, scopes, ps) ==
    IF Len(scopes) = 0 THEN Raised(h)
    ELSE IF \E j \in 1..Len(scopes) : Len(scopes[j].query) # 1 THEN Raised(h)
    ELSE IF Len(ps) # Len(scopes) THEN Raised(h)
    ELSE IF \E j \in 1..Len(ps) : RLess(ps[j], RZero) \/ RLess(ROne, ps[j]) THEN Raised(h)
    ELSE Created(h, MkModule("LeafLayer", scopes, <<>>, <<>>, ps, NoCondF))

\* CondExponential.__init__ (the conditional univariate leaf)
CondLeaf(h, sc, cond_f) ==
    IF Len(sc.query) # 1 THEN Raised(h)
    ELSE IF Len(sc.evidence) # 0 THEN Raised(h)
    ELSE Created(h, MkModule("CondLeaf", <<sc>>, <<>>, <<>>, <<>>, cond_f))

\* CondGaussianLayer.__init__ with a list of scopes, and set_cond_f
CondGaussianLayer(h, scopes, cond_f) ==
    IF Len(scopes) = 0 THEN Raised(h)
    ELSE IF \E j \in 1..Len(scopes) : Len(scopes[j].query) # 1 THEN Raised(h)
    ELSE IF cond_f.list /\ Len(cond_f.rets) # Len(scopes) THEN Raised(h)
    ELSE Created(h, MkModule("CondLeafLayer", scopes, <<>>, <<>>, <<>>, cond_f))

\* CondBernoulli.__init__, the node of a CondBernoulliLayer: one query variable
CondBernoulli(h, sc, cond_f) ==
    IF Len(sc.query) # 1 THEN Raised(h)
    ELSE Created(h, MkModule("CondBernoulli", <<sc>>, <<>>, <<>>, <<>>, cond_f))

\* CondBernoulliLayer.__init__ with a list of scopes, and set_cond_f
CondBernoulliLayer(h, scopes, cond_f) ==
    IF Len(scopes) = 0 THEN Raised(h)
    ELSE IF \E j \in 1..Len(scopes) : ~CondBernoulli(h, scopes[j], NoCondF).ok THEN Raised(h)
    ELSE IF cond_f.list /\ Len(cond_f.rets) # Len(scopes) THEN Raised(h)
    ELSE Created(h, MkModule("CondBernoulliLayer", scopes, <<>>, <<>>, <<>>, cond_f))

----------------------------------------------------------------------------
(* Dispatch context: args (per-module overrides), cache (memoized results   *)
(* of the running operation), and calls, which counts for every module how  *)
(* often the operation's implementation ran on it.                          *)

EmptyMap == [x \in {} |-> 0]

NewCtx(h, args) ==
    [args |-> args, cache |-> EmptyMap, calls |-> [i \in 1..Len(h) |-> 0]]

\* a recursive call that does not see the results cached so far
ChildCtx_uncached(st) == [st EXCEPT !.cache = EmptyMap]
\* the dispatch context handed to a recursive call: dispatch_ctx=dispatch_ctx
ChildCtx(st) == st

\* memoization of dispatch(memoize=True): lookup and store, keyed by module
IsCached(st, n) == n \in DOMAIN st.cache
Memoize(st, n, val) == [st EXCEPT !.cache = (n :> val) @@ @]
Invoked(st, n) == [st EXCEPT !.calls[n] = @ + 1]

----------------------------------------------------------------------------
(* Parameter retrieval of a conditional leaf *)

\* CondExponential.retrieve_params: [err, val]; key is the parameter's name
retrieve_params(m, n, key, st) ==
    LET inArgs == n \in DOMAIN st.args
        a == st.args[n]
        hasVal == inArgs /\ key \in DOMAIN a
        cond_f == IF inArgs
                  THEN (IF ~hasVal /\ "cond_f" \in DOMAIN a THEN a["cond_f"] ELSE NoCondF)
                  ELSE (IF m.cond_f.set THEN m.cond_f ELSE NoCondF)
    IN IF ~hasVal /\ ~cond_f.set THEN [err |-> TRUE, val |-> RZero]
       ELSE LET v == IF hasVal THEN a[key] ELSE cond_f.ret[key]
            IN IF leq_zero(v) \/ ~isfinite(v) THEN [err |-> TRUE, val |-> v]
               ELSE [err |-> FALSE, val |-> v]

\* a parameter value of a layer: a single number, reused for every node, or a
\* one-dimensional array of numbers
Scalar(q) == [scalar |-> TRUE, v |-> <<q>>]
Array(qs) == [scalar |-> FALSE, v |-> qs]

\* torch.tensor([x for _ in range(n_out)]) for a number, torch.tensor(x) otherwise
AsArray(x, nout) == IF x.scalar THEN [j \in 1..nout |-> x.v[1]] ELSE x.v

\* CondGaussianLayer.retrieve_params: [err, mean, std]
retrieve_params_layer(m, n, st) ==
    LET inArgs == n \in DOMAIN st.args
        a == st.args[n]
        hasMean == inArgs /\ "mean" \in DOMAIN a
        hasStd == inArgs /\ "std" \in DOMAIN a
        cond_f == IF inArgs
                  THEN (IF ~hasStd /\ "cond_f" \in DOMAIN a THEN a["cond_f"] ELSE NoCondF)
                  ELSE (IF m.cond_f.set THEN m.cond_f ELSE NoCondF)
        fromF == ~hasMean \/ ~hasStd
        failed == [err |-> TRUE, mean |-> <<>>, std |-> <<>>]
    IN IF fromF /\ ~cond_f.set THEN failed
       ELSE LET retrieved(key) ==
                    IF ~fromF THEN a[key]
                    ELSE IF cond_f.list
                         THEN Array([j \in 1..Len(cond_f.rets) |-> cond_f.rets[j][key].v[1]])
                         ELSE cond_f.ret[key]
                mean == AsArray(retrieved("mean"), n_out(m))
                std == AsArray(retrieved("std"), n_out(m))
            IN IF Len(mean) # n_out(m) THEN failed
               ELSE IF ~\E j \in 1..Len(mean) : isfinite(mean[j]) THEN failed
               ELSE IF Len(std) # n_out(m) THEN failed
               ELSE IF \/ \E j \in 1..Len(std) : leq_zero(std[j])
                       \/ ~\E j \in 1..Len(std) : isfinite(std[j]) THEN failed
               ELSE [err |-> FALSE, mean |-> mean, std |-> std]

\* CondBernoulliLayer.retrieve_params: [err, p]
retrieve_params_CondBernoulliLayer(m, n, st) ==
    LET inArgs == n \in DOMAIN st.args
        a == st.args[n]
        hasP == inArgs /\ "p" \in DOMAIN a
        cond_f == IF inArgs
                  THEN (IF ~hasP /\ "cond_f" \in DOMAIN a THEN a["cond_f"] ELSE NoCondF)
                  ELSE (IF m.cond_f.set THEN m.cond_f ELSE NoCondF)
        failed == [err |-> TRUE, p |-> <<>>]
    IN IF ~hasP /\ ~cond_f.set THEN failed
       ELSE LET retrieved ==
                    IF hasP THEN a["p"]
                    ELSE IF cond_f.list
                         THEN Array([j \in 1..Len(cond_f.rets) |-> cond_f.rets[j]["p"].v[1]])
                         ELSE cond_f.ret["p"]
                p == AsArray(retrieved, n_out(m))
            IN IF Len(p) # n_out(m) THEN failed
               ELSE [err |-> FALSE, p |-> p]

----------------------------------------------------------------------------
(* Log-likelihood *)

\* data[:, scope.query] of one row
ScopeRow(row, sc) == [k \in 1..Len(sc.query) |-> row[sc.query[k] + 1]]

\* a support check that forgets the upper end of the range
check_support_unbounded(srow) == \A k \in 1..Len(srow) : srow[k] = NaN \/ srow[k] >= 0
\* Bernoulli.check_support of one row of scope data: NaN is valid, else 0 or 1
check_support(srow) ==
    \A k \in 1..Len(srow) : srow[k] = NaN \/ (srow[k] >= 0 /\ srow[k] <= 1)

\* bernoulli(p).logpmf(k)
logpmf(p, k) ==
    IF k = 1 THEN Log(p)
    ELSE IF k = 0 THEN Log(RSub(ROne, p))
    ELSE Log(RZero)

LLError(st) == [st |-> st, err |-> TRUE, val |-> <<>>]
LLValue(st, val) == [st |-> st, err |-> FALSE, val |-> val]

\* a leaf that treats no row as marginalized
marg_ids_none(srow) == FALSE
\* marg_ids = np.isnan(data).sum(axis=-1).astype(bool)
marg_ids(srow) == \E k \in 1..Len(srow) : srow[k] = NaN

\* log_likelihood of a univariate leaf with parameter p; one column per row
LeafColumn(sc, p, dat, check) ==
    LET sdat == [r \in 1..Len(dat) |-> ScopeRow(dat[r], sc)]
    IN IF check /\ \E r \in 1..Len(dat) : ~marg_ids(sdat[r]) /\ ~check_support(sdat[r])
       THEN [err |-> TRUE, col |-> <<>>]
       ELSE [err |-> FALSE,
             col |-> [r \in 1..Len(dat) |->
                        IF marg_ids(sdat[r]) THEN LogZero ELSE logpmf(p, sdat[r][1])]]

log_likelihood_Leaf(h, n, dat, check, st) ==
    LET c == LeafColumn(h[n].scopes_out[1], h[n].params[1], dat, check)
    IN IF c.err THEN LLError(st)
       ELSE LLValue(st, [r \in 1..Len(dat) |-> <<c.col[r]>>])

log_likelihood_CondLeaf(h, n, dat, check, st) ==
    LET p == retrieve_params(h[n], n, "p", st)
        c == LeafColumn(h[n].scopes_out[1], p.val, dat, check)
    IN IF p.err \/ c.err THEN LLError(st)
       ELSE LLValue(st, [r \in 1..Len(dat) |-> <<c.col[r]>>])

\* a leaf layer that evaluates every node with the first node's parameter
log_likelihood_LeafLayer_shared(h, n, dat, st) ==
    LET cols == [j \in 1..n_out(h[n]) |->
                    LeafColumn(h[n].scopes_out[j], h[n].params[1], dat, TRUE)]
    IN IF \E j \in 1..Len(cols) : cols[j].err THEN LLError(st)
       ELSE LLValue(st, [r \in 1..Len(dat) |-> [j \in 1..Len(cols) |-> cols[j].col[r]]])
\* np.concatenate([log_likelihood(node, data) for node in layer.nodes], axis=1)
log_likelihood_LeafLayer(h, n, dat, st) ==
    LET cols == [j \in 1..n_out(h[n]) |->
                    LeafColumn(h[n].scopes_out[j], h[n].params[j], dat, TRUE)]
    IN IF \E j \in 1..Len(cols) : cols[j].err THEN LLError(st)
       ELSE LLValue(st, [r \in 1..Len(dat) |-> [j \in 1..Len(cols) |-> cols[j].col[r]]])

RECURSIVE log_likelihood(_, _, _, _, _)
RECURSIVE ChildrenLL(_, _, _, _, _)

\* torch.hstack([log_likelihood(child, data, dispatch_ctx=dispatch_ctx) for child in children])
ChildrenLL(h, children, i, dat, st) ==
    IF i > Len(children) THEN LLValue(st, [r \in 1..Len(dat) |-> <<>>])
    ELSE LET c == log_likelihood(h, children[i], dat, TRUE, ChildCtx(st))
         IN IF c.err THEN c
            ELSE LET rest == ChildrenLL(h, children, i + 1, dat, c.st)
                 IN IF rest.err THEN rest
                    ELSE LLValue(rest.st, [r \in 1..Len(dat) |-> c.val[r] \o rest.val[r]])

\* a sum that ignores its weights
WeightedLogSumExp_unweighted(row, w) == Log(RSum([i \in 1..Len(row) |-> Exp(row[i])]))
\* weighted_inputs = inputs + node.weights.log(); torch.logsumexp(weighted_inputs)
WeightedLogSumExp(row, w) ==
    LogSumExp([i \in 1..Len(row) |-> LogAdd(row[i], Log(w[i]))])

log_likelihood_SPNSumNode(h, n, dat, st) ==
    LET inputs == ChildrenLL(h, h[n].children, 1, dat, st)
    IN IF inputs.err THEN inputs
       ELSE LLValue(inputs.st,
                [r \in 1..Len(dat) |-> <<WeightedLogSumExp(inputs.val[r], weights(h[n]))>>])

log_likelihood_SPNProductNode(h, n, dat, st) ==
    LET inputs == ChildrenLL(h, h[n].children, 1, dat, st)
    IN IF inputs.err THEN inputs
       ELSE LLValue(inputs.st, [r \in 1..Len(dat) |-> <<LogRowSum(inputs.val[r])>>])

\* a sum layer: node j is the log-sum-exp of all child outputs weighted by row j
log_likelihood_SumLayer(h, n, dat, st) ==
    LET inputs == ChildrenLL(h, h[n].children, 1, dat, st)
    IN IF inputs.err THEN inputs
       ELSE LLValue(inputs.st,
                [r \in 1..Len(dat) |->
                    [j \in 1..n_out(h[n]) |->
                        WeightedLogSumExp(inputs.val[r], weights(h[n])[j])]])

\* dispatch on the module's type, with memoization in the dispatch context
log_likelihood(h, n, dat, check, st) ==
    IF IsCached(st, n) THEN LLValue(st, st.cache[n])
    ELSE LET st1 == Invoked(st, n)
             r == CASE h[n].kind = "Leaf" -> log_likelihood_Leaf(h, n, dat, check, st1)
                    [] h[n].kind = "CondLeaf" -> log_likelihood_CondLeaf(h, n, dat, check, st1)
                    [] h[n].kind = "LeafLayer" -> log_likelihood_LeafLayer(h, n, dat, st1)
                    [] h[n].kind = "Sum" -> log_likelihood_SPNSumNode(h, n, dat, st1)
                    [] h[n].kind = "Product" -> log_likelihood_SPNProductNode(h, n, dat, st1)
                    [] h[n].kind = "SumLayer" -> log_likelihood_SumLayer(h, n, dat, st1)
         IN IF r.err THEN r ELSE LLValue(Memoize(r.st, n, r.val), r.val)

----------------------------------------------------------------------------
(* Construction scripts: the constructor calls that build a circuit, in     *)
(* program order.  Children are named by their position in the heap.        *)

Q(n, d) == <<n, d>>
Var(v) == Scope(<<v>>, <<>>)

NewLeafCall(v, p) ==
    [op |-> "Leaf", sc |-> <<Var(v)>>, ch |-> <<>>, w |-> W1(<<>>), p |-> <<p>>,
     cf |-> NoCondF, n |-> 1]
NewCondLeafCall(v, cf) ==
    [op |-> "CondLeaf", sc |-> <<Var(v)>>, ch |-> <<>>, w |-> W1(<<>>), p |-> <<>>,
     cf |-> cf, n |-> 1]
NewLeafLayerCall(vs, ps) ==
    [op |-> "LeafLayer", sc |-> [j \in 1..Len(vs) |-> Var(vs[j])], ch |-> <<>>,
     w |-> W1(<<>>), p |-> ps, cf |-> NoCondF, n |-> Len(vs)]
NewSumCall(ch, w) ==
    [op |-> "Sum", sc |-> <<>>, ch |-> ch, w |-> W1(w), p |-> <<>>, cf |-> NoCondF, n |-> 1]
NewProductCall(ch) ==
    [op |-> "Product", sc |-> <<>>, ch |-> ch, w |-> W1(<<>>), p |-> <<>>,
     cf |-> NoCondF, n |-> 1]
NewSumLayerCall(n, ch, w) ==
    [op |-> "SumLayer", sc |-> <<>>, ch |-> ch, w |-> W2(w), p |-> <<>>,
     cf |-> NoCondF, n |-> n]

\* circuits over one or two variables, evaluated on data batches
ScriptsLL ==
    { <<NewLeafCall(0, Q(1, 2))>>,
      <<NewCondLeafCall(0, CondF("p" :> Q(1, 4)))>>,
      <<NewCondLeafCall(0, NoCondF)>>,
      <<NewLeafCall(0, Q(1, 3)), NewLeafCall(0, Q(3, 4)),
        NewSumCall(<<1, 2>>, <<Q(3, 10), Q(7, 10)>>)>>,
      <<NewLeafLayerCall(<<0, 0>>, <<Q(1, 3), Q(3, 4)>>),
        NewSumCall(<<1>>, <<Q(3, 10), Q(7, 10)>>)>>,
      <<NewLeafCall(0, Q(1, 3)), NewLeafCall(1, Q(3, 4)), NewProductCall(<<1, 2>>)>>,
      <<NewLeafLayerCall(<<0, 1>>, <<Q(1, 3), Q(3, 4)>>), NewProductCall(<<1>>)>>,
      <<NewCondLeafCall(0, CondF("p" :> Q(1, 4))), NewLeafCall(1, Q(1, 2)),
        NewProductCall(<<1, 2>>)>>,
      <<NewLeafCall(0, Q(1, 3)), NewLeafCall(0, Q(3, 4)),
        NewSumLayerCall(2, <<1, 2>>, << <<Q(4, 5), Q(1, 5)>>, <<Q(1, 2), Q(1, 2)>> >>),
        NewSumCall(<<3>>, <<Q(3, 10), Q(7, 10)>>)>>,
      \* a leaf shared by two products
      <<NewLeafCall(0, Q(1, 3)), NewLeafCall(1, Q(1, 2)), NewLeafCall(1, Q(3, 4)),
        NewProductCall(<<1, 2>>), NewProductCall(<<1, 3>>),
        NewSumCall(<<4, 5>>, <<Q(2, 5), Q(3, 5)>>)>>,
      \* a sum node shared by two products
      <<NewLeafCall(0, Q(1, 3)), NewLeafCall(0, Q(3, 4)),
        NewSumCall(<<1, 2>>, <<Q(1, 2), Q(1, 2)>>),
        NewLeafLayerCall(<<1, 1>>, <<Q(1, 2), Q(1, 4)>>),
        NewLeafCall(1, Q(2, 3)),
        NewProductCall(<<3, 5>>), NewProductCall(<<5, 3>>),
        NewSumCall(<<6, 7, 6>>, <<Q(1, 5), Q(1, 2), Q(3, 10)>>)>> }

NoOut ==
    [op |-> "none", root |-> None, err |-> FALSE, val |-> <<>>, res |-> None,
     check |-> TRUE, rvs |-> {}, prune |-> TRUE, rvs2 |-> {}, res2 |-> None,
     ids |-> <<>>, joint |-> <<>>]

Building == pc < Len(script)
Built == pc = Len(script)
NextCall == script[pc + 1]

\* a constructor call of the script: the object is added, or the call raised
Constructed(r) ==
    /\ heap' = r.heap
    /\ pc' = pc + 1
    /\ out' = [NoOut EXCEPT !.op = "construct", !.err = ~r.ok, !.res = r.id]
    /\ UNCHANGED <<script, ctx, data>>

NewLeaf ==
    /\ Building /\ NextCall.op = "Leaf"
    /\ Constructed(Bernoulli(heap, NextCall.sc[1], NextCall.p[1]))

NewCondLeaf ==
    /\ Building /\ NextCall.op = "CondLeaf"
    /\ Constructed(CondLeaf(heap, NextCall.sc[1], NextCall.cf))

NewLeafLayer ==
    /\ Building /\ NextCall.op = "LeafLayer"
    /\ Constructed(LeafLayer(heap, NextCall.sc, NextCall.p))

NewSumNode ==
    /\ Building /\ NextCall.op = "Sum"
    /\ Constructed(SPNSumNode(heap, NextCall.ch, NextCall.w))

NewProductNode ==
    /\ Building /\ NextCall.op = "Product"
    /\ Constructed(SPNProductNode(heap, NextCall.ch))

NewSumLayer ==
    /\ Building /\ NextCall.op = "SumLayer"
    /\ Constructed(SumLayer(heap, NextCall.n, NextCall.ch, NextCall.w))

----------------------------------------------------------------------------
(* Data batches *)

Vals == {NaN} \cup (0..MaxVal)

\* the number of data columns a circuit needs: its largest variable index + 1
NumCols(h) ==
    LET vs == UNION {Range(scope(h[i]).query) : i \in 1..Len(h)}
    IN IF vs = {} THEN 0 ELSE (CHOOSE v \in vs : \A u \in vs : u <= v) + 1

Batches(ncols) == UNION {[1..k -> [1..ncols -> Vals]] : k \in 1..MaxRows}

IsLeafKind(m) == m.kind \in {"Leaf", "CondLeaf"}

\* the overrides a caller may put into dispatch_ctx.args for a conditional leaf
ArgsLL(h) ==
    {EmptyMap} \cup
    {(n :> ("p" :> Q(1, 2))) : n \in {i \in 1..Len(h) : h[i].kind = "CondLeaf"}}

\* the modules a caller evaluates: those that are no other module's child
Roots(h) == {n \in 1..Len(h) : \A m \in 1..Len(h) : n \notin Range(h[m].children)}

----------------------------------------------------------------------------
(* Top-level log-likelihood call with a fresh dispatch context *)

LogLikelihood ==
    /\ Built /\ out.op # "log_likelihood"
    /\ \E root \in Roots(heap), dat \in Batches(NumCols(heap)), args \in ArgsLL(heap) :
         \E check \in (IF IsLeafKind(heap[root]) THEN BOOLEAN ELSE {TRUE}) :
            LET r == log_likelihood(heap, root, dat, check, NewCtx(heap, args))
            IN /\ data' = dat
               /\ ctx' = r.st
               /\ out' = [NoOut EXCEPT !.op = "log_likelihood", !.root = root,
                                       !.err = r.err, !.val = r.val, !.check = check]
    /\ UNCHANGED <<heap, script, pc>>

InitLL ==
    /\ script \in ScriptsLL
    /\ heap = <<>>
    /\ pc = 0
    /\ ctx = NewCtx(<<>>, EmptyMap)
    /\ data = <<>>
    /\ out = NoOut

NextLL ==
    \/ NewLeaf
    \/ NewCondLeaf
    \/ NewLeafLayer
    \/ NewSumNode
    \/ NewProductNode
    \/ NewSumLayer
    \/ LogLikelihood

SpecLL == InitLL /\ [][NextLL]_vars

----------------------------------------------------------------------------
(* Properties of log_likelihood (SpecLL) *)

RECURSIVE Reach(_, _)
\* the modules of the circuit rooted at n
Reach(h, n) ==
    {n} \cup UNION {Reach(h, h[n].children[i]) : i \in 1..Len(h[n].children)}

Parents(h, n) == {m \in 1..Len(h) : n \in Range(h[m].children)}

Evaluated == out.op = "log_likelihood"
Rows == 1..Len(data)

\* the child outputs of module n on row r, in child order, as left in the cache
InputsOf(n, r) ==
    Flatten([i \in 1..Len(heap[n].children) |-> ctx.cache[heap[n].children[i]][r]])

\* C1: within one top-level log_likelihood call the implementation runs at most
\* once on every module, shared or not; a successful call ran it exactly once on
\* every module of the circuit and returns the root's cached result.
C1_AtMostOnce ==
    Evaluated =>
        /\ \A n \in 1..Len(heap) : ctx.calls[n] <= 1
        /\ ~out.err =>
              /\ \A n \in 1..Len(heap) :
                    ctx.calls[n] = (IF n \in Reach(heap, out.root) THEN 1 ELSE 0)
              /\ DOMAIN ctx.cache = Reach(heap, out.root)
              /\ out.val = ctx.cache[out.root]

\* a module with two parents inside the evaluated circuit was evaluated once
C1_Witness ==
    /\ Evaluated /\ ~out.err
    /\ \E n \in Reach(heap, out.root) :
          /\ Cardinality(Parents(heap, n) \cap Reach(heap, out.root)) >= 2
          /\ ctx.calls[n] = 1

FullyMissing(row, sc) == \A k \in 1..Len(sc.query) : row[sc.query[k] + 1] = NaN
NoneMissing(row, sc) == \A k \in 1..Len(sc.query) : row[sc.query[k] + 1] # NaN
InSupport(row, sc) == \A k \in 1..Len(sc.query) : row[sc.query[k] + 1] \in {0, 1}

LeafModules == {n \in 1..Len(heap) : heap[n].kind \in {"Leaf", "CondLeaf", "LeafLayer"}}

\* the parameter of a conditional leaf can be retrieved in the call's context
ParamsOk(n) == heap[n].kind = "CondLeaf" => (n \in DOMAIN ctx.args \/ heap[n].cond_f.set)

\* C3: a row whose entries are NaN in every column of a leaf's query scope gets
\* log-likelihood exactly 0 from that leaf, whatever the leaf's parameters, and a
\* batch of such rows never makes the leaf's evaluation fail.
C3_MissingIsNeutral ==
    Evaluated =>
        /\ \A n \in LeafModules \cap DOMAIN ctx.cache : \A r \in Rows :
              \A j \in 1..n_out(heap[n]) :
                 FullyMissing(data[r], heap[n].scopes_out[j])
                     => ctx.cache[n][r][j] = LogZero
        /\ ( /\ out.root \in LeafModules
             /\ ParamsOk(out.root)
             /\ \A r \in Rows : \A j \in 1..n_out(heap[out.root]) :
                    FullyMissing(data[r], heap[out.root].scopes_out[j]) )
           => (~out.err /\ \A r \in Rows : \A j \in 1..n_out(heap[out.root]) :
                                out.val[r][j] = LogZero)

\* a leaf evaluated on a batch that has a fully missing row and an observed row
C3_Witness ==
    /\ Evaluated /\ ~out.err /\ out.root \in LeafModules
    /\ heap[out.root].kind # "LeafLayer"
    /\ \E r \in Rows : /\ FullyMissing(data[r], heap[out.root].scopes_out[1])
                       /\ out.val[r][1] = LogZero
    /\ \E r \in Rows : /\ NoneMissing(data[r], heap[out.root].scopes_out[1])
                       /\ out.val[r][1] # LogZero

\* leaf n is evaluated with check_support on: always so below the root
ChecksSupport(n) == n # out.root \/ out.check

\* C4: with check_support on, a batch with at least one row that has no missing
\* value in a leaf's scope and lies outside the distribution's support makes the
\* whole call fail; no log-likelihood value is returned for any row.
C4_SupportViolationAborts ==
    Evaluated =>
        \A n \in Reach(heap, out.root) \cap LeafModules :
            ( /\ ChecksSupport(n)
              /\ \E r \in Rows : \E j \in 1..n_out(heap[n]) :
                    /\ NoneMissing(data[r], heap[n].scopes_out[j])
                    /\ ~InSupport(data[r], heap[n].scopes_out[j]) )
            => (out.err /\ out.val = <<>>)

\* a leaf call failed on a batch of one row inside and one row outside the support
C4_Witness ==
    /\ Evaluated /\ out.err /\ out.check /\ out.val = <<>>
    /\ heap[out.root].kind = "Leaf"
    /\ \E r \in Rows : /\ NoneMissing(data[r], heap[out.root].scopes_out[1])
                       /\ InSupport(data[r], heap[out.root].scopes_out[1])
    /\ \E r \in Rows : /\ NoneMissing(data[r], heap[out.root].scopes_out[1])
                       /\ ~InSupport(data[r], heap[out.root].scopes_out[1])

\* sum over i of w[i] * exp(ll[i]), in the linear domain
WeightedSum(w, ll) == RSum([i \in 1..Len(ll) |-> RMul(w[i], Exp(ll[i]))])

\* C5: on every row, a sum node's log-likelihood is log(sum_i w_i * exp(ll_i))
\* over its child outputs ll_i in child order.
C5_SumNodeIsWeightedSum ==
    (Evaluated /\ ~out.err) =>
        \A n \in DOMAIN ctx.cache :
            heap[n].kind = "Sum" =>
                \A r \in Rows :
                    ctx.cache[n][r] = <<Log(WeightedSum(weights(heap[n]), InputsOf(n, r)))>>

\* a sum node over child outputs that differ, with unequal weights
C5_Witness ==
    /\ Evaluated /\ ~out.err /\ heap[out.root].kind = "Sum"
    /\ \E r \in Rows :
          /\ Len(InputsOf(out.root, r)) >= 2
          /\ InputsOf(out.root, r)[1] # InputsOf(out.root, r)[2]
          /\ weights(heap[out.root])[1] # weights(heap[out.root])[2]
          /\ RLess(RZero, Exp(out.val[r][1]))

RECURSIVE SumOfLogs(_)
SumOfLogs(ll) == IF ll = <<>> THEN LogZero ELSE LogAdd(Head(ll), SumOfLogs(Tail(ll)))

\* C6: on every row, a product node's log-likelihood is the sum of the
\* log-likelihoods of all outputs of its children.
C6_ProductNodeIsSum ==
    (Evaluated /\ ~out.err) =>
        \A n \in DOMAIN ctx.cache :
            heap[n].kind = "Product" =>
                \A r \in Rows : ctx.cache[n][r] = <<SumOfLogs(InputsOf(n, r))>>

\* a product node over two child outputs, neither of them neutral
C6_Witness ==
    /\ Evaluated /\ ~out.err /\ heap[out.root].kind = "Product"
    /\ \E r \in Rows :
          /\ Len(InputsOf(out.root, r)) >= 2
          /\ \A i \in 1..2 : InputsOf(out.root, r)[i] \notin {LogZero, Log(RZero)}

\* The circuit of individual nodes equivalent to module n: every leaf layer is
\* replaced by one leaf per output and every sum layer by one sum node per output,
\* built with the node constructors.  [heap, ids]: ids[j] is the node of output j.
RECURSIVE Unbatch(_, _)
RECURSIVE UnbatchAll(_, _, _)
RECURSIVE UnbatchLeaves(_, _, _)
RECURSIVE UnbatchSums(_, _, _, _)

UnbatchAll(h, children, i) ==
    IF i > Len(children) THEN [heap |-> h, ids |-> <<>>]
    ELSE LET c == Unbatch(h, children[i])
             rest == UnbatchAll(c.heap, children, i + 1)
         IN [heap |-> rest.heap, ids |-> c.ids \o rest.ids]

UnbatchLeaves(h, m, j) ==
    IF j > n_out(m) THEN [heap |-> h, ids |-> <<>>]
    ELSE LET leaf == Bernoulli(h, m.scopes_out[j], m.params[j])
             rest == UnbatchLeaves(leaf.heap, m, j + 1)
         IN [heap |-> rest.heap, ids |-> <<leaf.id>> \o rest.ids]

UnbatchSums(h, ids, rows, j) ==
    IF j > Len(rows) THEN [heap |-> h, ids |-> <<>>]
    ELSE LET node == SPNSumNode(h, ids, W1(rows[j]))
             rest == UnbatchSums(node.heap, ids, rows, j + 1)
         IN [heap |-> rest.heap, ids |-> <<node.id>> \o rest.ids]

Unbatch(h, n) ==
    CASE h[n].kind \in {"Leaf", "CondLeaf"} -> [heap |-> h, ids |-> <<n>>]
      [] h[n].kind = "LeafLayer" -> UnbatchLeaves(h, h[n], 1)
      [] h[n].kind = "Sum" ->
            LET c == UnbatchAll(h, h[n].children, 1)
                node == SPNSumNode(c.heap, c.ids, W1(weights(h[n])))
            IN [heap |-> node.heap, ids |-> <<node.id>>]
      [] h[n].kind = "Product" ->
            LET c == UnbatchAll(h, h[n].children, 1)
                node == SPNProductNode(c.heap, c.ids)
            IN [heap |-> node.heap, ids |-> <<node.id>>]
      [] h[n].kind = "SumLayer" ->
            LET c == UnbatchAll(h, h[n].children, 1)
            IN UnbatchSums(c.heap, c.ids, weights(h[n]), 1)

HasLayer(h, n) == \E m \in Reach(h, n) : h[m].kind \in {"LeafLayer", "SumLayer"}

\* the log-likelihood of node ids[j] of the equivalent circuit of nodes
NodeLL(u, j) ==
    log_likelihood(u.heap, u.ids[j], data, out.check, NewCtx(u.heap, ctx.args))

----------------------------------------------------------------------------
(* Parameter retrieval of conditional leaves and leaf layers *)

NewCondLeafLayerCall(vs, cf) ==
    [op |-> "CondLeafLayer", sc |-> [j \in 1..Len(vs) |-> Var(vs[j])], ch |-> <<>>,
     w |-> W1(<<>>), p |-> <<>>, cf |-> cf, n |-> Len(vs)]

NewCondLeafLayer ==
    /\ Building /\ NextCall.op = "CondLeafLayer"
    /\ Constructed(CondGaussianLayer(heap, NextCall.sc, NextCall.cf))

\* the dictionary a layer's cond_f returns
Params(mean, std) == ("mean" :> mean) @@ ("std" :> std)

ScriptsParams ==
    { <<NewCondLeafCall(0, NoCondF)>>,
      <<NewCondLeafCall(0, CondF("p" :> Q(1, 4)))>>,
      <<NewCondLeafCall(0, CondF("p" :> Q(0, 1)))>>,
      <<NewCondLeafLayerCall(<<0, 1>>, NoCondF)>>,
      <<NewCondLeafLayerCall(<<0, 1>>, CondF(Params(Scalar(Q(1, 4)), Scalar(Q(3, 1)))))>>,
      <<NewCondLeafLayerCall(<<0, 1>>,
            CondF(Params(Array(<<Q(1, 4), Q(1, 1)>>), Array(<<Q(3, 1), Q(5, 1)>>))))>>,
      <<NewCondLeafLayerCall(<<0, 1>>,
            CondFList(<<Params(Scalar(Q(1, 4)), Scalar(Q(3, 1))),
                        Params(Scalar(Q(1, 1)), Scalar(Q(5, 1)))>>))>>,
      <<NewCondLeafLayerCall(<<0, 1>>,
            CondFList(<<Params(Scalar(Q(1, 4)), Scalar(Q(3, 1)))>>))>> }

\* subsets of a dictionary's entries
SubDicts(d) == {[k \in ks |-> d[k]] : ks \in SUBSET (DOMAIN d)}

\* what a caller may store under a conditional leaf in dispatch_ctx.args
ArgDicts(m) ==
    IF m.kind = "CondLeaf"
    THEN UNION {SubDicts(("p" :> v) @@ ("cond_f" :> CondF("p" :> Q(2, 3)))) :
                    v \in {Q(1, 2), Q(0, 1)}}
    ELSE UNION {SubDicts(("mean" :> mu) @@ ("std" :> sd) @@
                         ("cond_f" :> CondF(Params(Scalar(Q(2, 3)), Scalar(Q(7, 1)))))) :
                    mu \in {Scalar(Q(1, 2)), Array(<<Q(1, 2), Q(1, 3)>>)},
                    sd \in {Scalar(Q(2, 1)), Scalar(Q(0, 1)), Array(<<Q(2, 1), Q(4, 1)>>)}}

ArgsParams(h, n) == {EmptyMap} \cup {(n :> d) : d \in ArgDicts(h[n])}

\* a call of a conditional leaf's retrieve_params with a caller's context
RetrieveParams ==
    /\ Built /\ out.op = "construct" /\ ~out.err
    /\ \E n \in 1..Len(heap) : \E args \in ArgsParams(heap, n) :
         LET st == NewCtx(heap, args)
             m == heap[n]
         IN /\ ctx' = st
            /\ IF m.kind = "CondLeaf"
               THEN LET r == retrieve_params(m, n, "p", st)
                    IN out' = [NoOut EXCEPT !.op = "retrieve_params", !.root = n,
                                            !.err = r.err, !.val = <<r.val>>]
               ELSE LET r == retrieve_params_layer(m, n, st)
                    IN out' = [NoOut EXCEPT !.op = "retrieve_params", !.root = n,
                                            !.err = r.err, !.val = <<r.mean, r.std>>]
    /\ UNCHANGED <<heap, script, pc, data>>

InitParams ==
    /\ script \in ScriptsParams
    /\ heap = <<>>
    /\ pc = 0
    /\ ctx = NewCtx(<<>>, EmptyMap)
    /\ data = <<>>
    /\ out = NoOut

NextParams ==
    \/ NewCondLeaf
    \/ NewCondLeafLayer
    \/ RetrieveParams

SpecParams == InitParams /\ [][NextParams]_vars

----------------------------------------------------------------------------
(* Properties of parameter retrieval *)

\* what the caller stored under module n in dispatch_ctx.args
Stored(n) == IF n \in DOMAIN ctx.args THEN ctx.args[n] ELSE NoDict

ParamKeys(m) == IF m.kind = "CondLeaf" THEN {"p"} ELSE {"mean", "std"}

\* the three sources of parameters, in the order of their priority
HasExplicit(n) == ParamKeys(heap[n]) \subseteq DOMAIN Stored(n)
HasArgsCondF(n) == "cond_f" \in DOMAIN Stored(n)
HasOwnCondF(n) == heap[n].cond_f.set

\* the parameters a dictionary gives to module m, one array per parameter
FromDict(m, d) ==
    IF m.kind = "CondLeaf" THEN <<d["p"]>>
    ELSE <<AsArray(d["mean"], n_out(m)), AsArray(d["std"], n_out(m))>>

FromCondF(m, f) ==
    IF f.list
    THEN <<[j \in 1..Len(f.rets) |-> f.rets[j]["mean"].v[1]],
           [j \in 1..Len(f.rets) |-> f.rets[j]["std"].v[1]]>>
    ELSE FromDict(m, f.ret)

FromFirstSource(n) ==
    IF HasExplicit(n) THEN FromDict(heap[n], Stored(n))
    ELSE IF HasArgsCondF(n) THEN FromCondF(heap[n], Stored(n)["cond_f"])
    ELSE FromCondF(heap[n], heap[n].cond_f)

\* the retrieved values are in the parameters' ranges and of the layer's shape
ValidParams(m, val) ==
    IF m.kind = "CondLeaf" THEN RLess(RZero, val[1])
    ELSE /\ Len(val[1]) = n_out(m)
         /\ Len(val[2]) = n_out(m)
         /\ \A j \in 1..Len(val[2]) : RLess(RZero, val[2][j])

\* C2: retrieve_params takes the parameters from the first available of: the
\* values stored in dispatch_ctx.args for the module, the cond_f stored there,
\* the module's own cond_f; it fails only when none of the three is available
C2_FirstAvailableSource ==
    out.op = "retrieve_params" =>
        LET n == out.root
            available == HasExplicit(n) \/ HasArgsCondF(n) \/ HasOwnCondF(n)
        IN /\ ~available => out.err
           /\ (available /\ ValidParams(heap[n], FromFirstSource(n))) =>
                  (~out.err /\ out.val = FromFirstSource(n))

----------------------------------------------------------------------------
(* Gaussian leaves.  The parameters of the model are rationals whose        *)
(* Cholesky factors and standard deviations are rational as well.           *)

\* the square root of a rational that is a square
ISqrt(n) == CHOOSE r \in 0..n : r * r = n
RSqrt(q) == <<ISqrt(q[1]), ISqrt(q[2])>>

\* torch.linalg.cholesky, row by row: row i of the lower triangular factor
\* given the rows above it, or ok = FALSE when cov is not positive definite
RECURSIVE CholeskyRow(_, _, _, _)
CholeskyRow(cov, L, i, row) ==
    LET j == Len(row) + 1
        dot(a, b) == RSum([k \in 1..(j - 1) |-> RMul(a[k], b[k])])
    IN IF j > i
       THEN [ok |-> TRUE, row |-> row \o [k \in 1..(Len(cov) - i) |-> RZero]]
       ELSE IF j = i
       THEN LET v == RSub(cov[i][i], dot(row, row))
            IN IF RLeq(v, RZero) THEN [ok |-> FALSE, row |-> <<>>]
               ELSE CholeskyRow(cov, L, i, Append(row, RSqrt(v)))
       ELSE CholeskyRow(cov, L, i,
                Append(row, RDiv(RSub(cov[i][j], dot(row, L[j])), L[j][j])))

RECURSIVE CholeskyRows(_, _)
CholeskyRows(cov, L) ==
    IF Len(L) = Len(cov) THEN L
    ELSE LET r == CholeskyRow(cov, L, Len(L) + 1, <<>>)
         IN IF ~r.ok THEN <<>> ELSE CholeskyRows(cov, Append(L, r.row))

\* the lower triangular factor of cov, <<>> when there is none
cholesky(cov) == CholeskyRows(cov, <<>>)

\* Gaussian.__init__ and set_params
Gaussian(h, sc, mean, std) ==
    IF Len(sc.query) # 1 THEN Raised(h)
    ELSE IF Len(sc.evidence) # 0 THEN Raised(h)
    ELSE IF RLeq(std, RZero) THEN Raised(h)
    ELSE Created(h, MkModule("Gaussian", <<sc>>, <<>>, <<>>, <<mean, std>>, NoCondF))

\* MultivariateGaussian.__init__ and set_params: the mean and the lower
\* triangular factor of the covariance matrix are stored
MultivariateGaussian(h, sc, mean, cov) ==
    IF Cardinality(Range(sc.query)) # Len(sc.query) THEN Raised(h)
    ELSE IF Len(sc.evidence) # 0 THEN Raised(h)
    ELSE IF Len(mean) # Len(sc.query) THEN Raised(h)
    ELSE IF Len(cov) # Len(sc.query) \/ \E i \in 1..Len(cov) : Len(cov[i]) # Len(sc.query)
    THEN Raised(h)
    ELSE IF cholesky(cov) = <<>> THEN Raised(h)
    ELSE Created(h, MkModule("MVG", <<sc>>, <<>>, <<>>, <<mean, cholesky(cov)>>, NoCondF))

\* MultivariateGaussian.mean, covariance_tril and cov = L L^T
mean_of(m) == m.params[1]
covariance_tril(m) == m.params[2]
cov_of(m) ==
    LET L == covariance_tril(m)
    IN [i \in 1..Len(L) |-> [j \in 1..Len(L) |->
            RSum([k \in 1..Len(L) |-> RMul(L[i][k], L[j][k])])]]

----------------------------------------------------------------------------
(* Structural marginalization.  Each variant returns [err, heap, id, st]:   *)
(* id is the returned module, None when the scope is marginalized entirely. *)

MaxVar == 2
RVs == 0..MaxVar

MargResult(h, id, st) == [err |-> FALSE, heap |-> h, id |-> id, st |-> st]
MargError(h, st) == [err |-> TRUE, heap |-> h, id |-> None, st |-> st]

\* copy.deepcopy of a module: the module and everything below it is copied, a
\* module reached twice is copied once (memo maps originals to copies)
RECURSIVE DeepCopy(_, _, _)
RECURSIVE DeepCopyAll(_, _, _, _)

DeepCopyAll(h, children, i, memo) ==
    IF i > Len(children) THEN [heap |-> h, ids |-> <<>>, memo |-> memo]
    ELSE LET c == DeepCopy(h, children[i], memo)
             rest == DeepCopyAll(c.heap, children, i + 1, c.memo)
         IN [heap |-> rest.heap, ids |-> <<c.id>> \o rest.ids, memo |-> rest.memo]

DeepCopy(h, n, memo) ==
    IF n \in DOMAIN memo THEN [heap |-> h, id |-> memo[n], memo |-> memo]
    ELSE LET c == DeepCopyAll(h, h[n].children, 1, memo)
             h2 == Append(c.heap, [h[n] EXCEPT !.children = c.ids])
         IN [heap |-> h2, id |-> Len(h2), memo |-> (n :> Len(h2)) @@ c.memo]

\* a copy that is the original object
deepcopy_same(h, n) == [heap |-> h, id |-> n]

\* return deepcopy(node)
deepcopy(h, n) == LET c == DeepCopy(h, n, EmptyMap) IN [heap |-> c.heap, id |-> c.id]

\* mutual_rvs = set(node_scope.query).intersection(set(marg_rvs))
mutual_rvs(m, marg_rvs) == Range(scope(m).query) \cap marg_rvs
FullyMarginalized(m, marg_rvs) ==
    Cardinality(mutual_rvs(m, marg_rvs)) = Len(scope(m).query)

\* marginalize of a generic node: the univariate leaves
marginalize_Node(h, n, marg_rvs, prune, st) ==
    IF FullyMarginalized(h[n], marg_rvs) THEN MargResult(h, None, st)
    ELSE IF mutual_rvs(h[n], marg_rvs) # {} THEN MargError(h, st)
    ELSE LET c == deepcopy(h, n) IN MargResult(c.heap, c.id, st)

\* a variant of node_params that takes the leading parameters
node_params_leading(params, keep) ==
    SubSeq(params, 1, Cardinality({j \in 1..Len(keep) : keep[j]}))

\* the parameters of the nodes that are kept: layer.p[marginalized_node_ids]
node_params(params, keep) == FilterIdx(params, keep, 1)

\* marginalize of a leaf layer: every node is marginalized on its own, and the
\* surviving scopes and parameters make a new node or a new layer
marginalize_LeafLayer(h, n, marg_rvs, prune, st) ==
    LET m == h[n]
        keep == [j \in 1..n_out(m) |-> Range(m.scopes_out[j].query) \cap marg_rvs = {}]
        marg_scopes == FilterIdx(m.scopes_out, keep, 1)
        marg_params == node_params(m.params, keep)
        new == IF Len(marg_scopes) = 1 /\ prune
               THEN Bernoulli(h, marg_scopes[1], marg_params[1])
               ELSE LeafLayer(h, marg_scopes, marg_params)
    IN IF Len(marg_scopes) = 0 THEN MargResult(h, None, st)
       ELSE IF ~new.ok THEN MargError(h, st)
       ELSE MargResult(new.heap, new.id, st)

\* marg_scope = [rv for rv in scope.query if rv not in marg_rvs]
marg_scope(sc, marg_rvs) == SelectSeq(sc.query, LAMBDA rv : rv \notin marg_rvs)

\* MultivariateGaussian.marginalize: the mean vector and the covariance matrix
\* are indexed with the variables of marg_scope; an index that is no position
\* of the vector raises IndexError
marginalize_MultivariateGaussian(h, n, marg_rvs, prune, st) ==
    LET m == h[n]
        ms == marg_scope(m.scopes_out[1], marg_rvs)
        d == Len(mean_of(m))
        IndexError == \E k \in 1..Len(ms) : ms[k] >= d
        new == IF Len(ms) = 1
               THEN Gaussian(h, Scope(ms, <<>>), mean_of(m)[ms[1] + 1],
                             RSqrt(cov_of(m)[ms[1] + 1][ms[1] + 1]))
               ELSE MultivariateGaussian(h, Scope(ms, <<>>),
                        [k \in 1..Len(ms) |-> mean_of(m)[ms[k] + 1]],
                        [k \in 1..Len(ms) |->
                            [l \in 1..Len(ms) |-> cov_of(m)[ms[k] + 1][ms[l] + 1]]])
    IN IF Len(ms) = 0 THEN MargResult(h, None, st)
       ELSE IF IndexError THEN MargError(h, st)
       ELSE IF ~new.ok THEN MargError(h, st)
       ELSE MargResult(new.heap, new.id, st)

\* marginalize of CondGaussianLayer: a new node or layer over the surviving scopes
marginalize_CondGaussianLayer(h, n, marg_rvs, prune, st) ==
    LET m == h[n]
        keep == [j \in 1..n_out(m) |-> Len(marg_scope(m.scopes_out[j], marg_rvs)) = 1]
        marginalized_scopes == FilterIdx(m.scopes_out, keep, 1)
        new == IF Len(marginalized_scopes) = 1 /\ prune
               THEN CondLeaf(h, marginalized_scopes[1], NoCondF)
               ELSE CondGaussianLayer(h, marginalized_scopes, NoCondF)
    IN IF Len(marginalized_scopes) = 0 THEN MargResult(h, None, st)
       ELSE IF ~new.ok THEN MargError(h, st)
       ELSE MargResult(new.heap, new.id, st)

\* marginalize of a CondBernoulliLayer: every node is marginalized on its own,
\* the scopes of the surviving nodes make a new node or a new layer
marginalize_CondBernoulliLayer(h, n, marg_rvs, prune, st) ==
    LET m == h[n]
        keep == [j \in 1..n_out(m) |-> Range(m.scopes_out[j].query) \cap marg_rvs = {}]
        marg_scopes == FilterIdx(m.scopes_out, keep, 1)
        new == IF Len(marg_scopes) = 1 /\ prune
               THEN CondBernoulli(h, marg_scopes[1], NoCondF)
               ELSE CondBernoulliLayer(h, marg_scopes, NoCondF)
    IN IF Len(marg_scopes) = 0 THEN MargResult(h, None, st)
       ELSE IF ~new.ok THEN MargError(h, st)
       ELSE MargResult(new.heap, new.id, st)

RECURSIVE marginalize(_, _, _, _, _)
RECURSIVE marginalize_children(_, _, _, _, _, _)

\* the loop over the children: [err, heap, ids, st], ids the results not None
marginalize_children(h, children, i, marg_rvs, prune, st) ==
    IF i > Len(children) THEN [err |-> FALSE, heap |-> h, ids |-> <<>>, st |-> st]
    ELSE LET c == marginalize(h, children[i], marg_rvs, prune, ChildCtx(st))
         IN IF c.err THEN [err |-> TRUE, heap |-> c.heap, ids |-> <<>>, st |-> c.st]
            ELSE LET rest == marginalize_children(c.heap, children, i + 1,
                                                  marg_rvs, prune, c.st)
                 IN [rest EXCEPT !.ids = (IF c.id # None THEN <<c.id>> ELSE <<>>) \o @]

\* the weights handed to the rebuilt sum, in reverse order
kept_weights_reversed(m) ==
    LET rev(v) == [i \in 1..Len(v) |-> v[Len(v) + 1 - i]]
    IN IF m.kind = "Sum" THEN W1(rev(weights(m)))
       ELSE W2([j \in 1..Len(weights(m)) |-> rev(weights(m)[j])])

\* weights=sum_node.weights, weights=layer.weights
kept_weights(m) == IF m.kind = "Sum" THEN W1(weights(m)) ELSE W2(weights(m))

marginalize_SPNSumNode(h, n, marg_rvs, prune, st) ==
    IF FullyMarginalized(h[n], marg_rvs) THEN MargResult(h, None, st)
    ELSE IF mutual_rvs(h[n], marg_rvs) # {}
    THEN LET c == marginalize_children(h, h[n].children, 1, marg_rvs, prune, st)
             new == SPNSumNode(c.heap, c.ids, kept_weights(h[n]))
         IN IF c.err THEN MargError(c.heap, c.st)
            ELSE IF ~new.ok THEN MargError(c.heap, c.st)
            ELSE MargResult(new.heap, new.id, c.st)
    ELSE LET c == deepcopy(h, n) IN MargResult(c.heap, c.id, st)

marginalize_SumLayer(h, n, marg_rvs, prune, st) ==
    IF FullyMarginalized(h[n], marg_rvs) THEN MargResult(h, None, st)
    ELSE IF mutual_rvs(h[n], marg_rvs) # {}
    THEN LET c == marginalize_children(h, h[n].children, 1, marg_rvs, prune, st)
             new == SumLayer(c.heap, n_out(h[n]), c.ids, kept_weights(h[n]))
         IN IF c.err THEN MargError(c.heap, c.st)
            ELSE IF ~new.ok THEN MargError(c.heap, c.st)
            ELSE MargResult(new.heap, new.id, c.st)
    ELSE LET c == deepcopy(h, n) IN MargResult(c.heap, c.id, st)

\* a product that is never replaced by its only child
returns_child_never(marg_children, prune) == FALSE

\* if len(marg_children) == 1 and prune: return marg_children[0]
returns_child(marg_children, prune) == Len(marg_children) = 1 /\ prune

marginalize_SPNProductNode(h, n, marg_rvs, prune, st) ==
    IF FullyMarginalized(h[n], marg_rvs) THEN MargResult(h, None, st)
    ELSE IF mutual_rvs(h[n], marg_rvs) # {}
    THEN LET c == marginalize_children(h, h[n].children, 1, marg_rvs, prune, st)
             new == SPNProductNode(c.heap, c.ids)
         IN IF c.err THEN MargError(c.heap, c.st)
            ELSE IF returns_child(c.ids, prune) THEN MargResult(c.heap, c.ids[1], c.st)
            ELSE IF ~new.ok THEN MargError(c.heap, c.st)
            ELSE MargResult(new.heap, new.id, c.st)
    ELSE LET c == deepcopy(h, n) IN MargResult(c.heap, c.id, st)

\* dispatch on the module's type, with memoization in the dispatch context
\* a required argument that the caller did not pass
Missing == "missing"

\* RatSPN.__init__ and from_region_graph, for a region graph whose root region
\* is already converted to the module root_region (None: an empty region
\* graph).  A call without feature_ctx raises TypeError before the body runs.
\* The record holds params = <<root_node, root_region, n_root_nodes,
\* n_region_nodes, n_leaf_nodes>>; the root node is a sum node over the root
\* region (any weights the sum node accepts; uniform ones are taken).
RatSPN(h, root_region, feature_ctx, n_root_nodes, n_region_nodes, n_leaf_nodes) ==
    IF feature_ctx = Missing THEN Raised(h)
    ELSE IF n_root_nodes < 1 \/ n_region_nodes < 1 \/ n_leaf_nodes < 1 THEN Raised(h)
    ELSE IF root_region = None
    THEN Created(h, MkModule("RatSPN", <<>>, <<>>, <<>>,
                             <<None, None, n_root_nodes, n_region_nodes, n_leaf_nodes>>,
                             NoCondF))
    ELSE LET nin == n_in(h, <<root_region>>)
             root == SPNSumNode(h, <<root_region>>, W1([i \in 1..nin |-> <<1, nin>>]))
         IN IF ~root.ok THEN Raised(h)
            ELSE Created(root.heap,
                         MkModule("RatSPN", root.heap[root.id].scopes_out, <<>>, <<>>,
                                  <<root.id, root_region, n_root_nodes, n_region_nodes,
                                    n_leaf_nodes>>, NoCondF))

root_node(m) == m.params[1]
root_region(m) == m.params[2]

\* marginalize of a RatSPN: the root node is marginalized with prune=False;
\* the new RatSPN is constructed without feature_ctx, then given the
\* marginalized root node and that node's first child
marginalize_RatSPN(h, n, marg_rvs, prune, st) ==
    LET r == marginalize(h, root_node(h[n]), marg_rvs, FALSE, st)
    IN IF r.err THEN r
       ELSE IF r.id = None THEN MargResult(r.heap, None, r.st)
       ELSE LET marg_rat == RatSPN(r.heap, None, Missing, h[n].params[3], h[n].params[4],
                                   h[n].params[5])
            IN IF ~marg_rat.ok THEN MargError(r.heap, r.st)
               ELSE MargResult(
                        [marg_rat.heap EXCEPT
                            ![marg_rat.id].params[1] = r.id,
                            ![marg_rat.id].params[2] = r.heap[r.id].children[1],
                            ![marg_rat.id].scopes_out = r.heap[r.id].scopes_out],
                        marg_rat.id, r.st)

marginalize(h, n, marg_rvs, prune, st) ==
    IF IsCached(st, n) THEN MargResult(h, st.cache[n], st)
    ELSE LET st1 == Invoked(st, n)
             r == CASE h[n].kind \in {"Leaf", "Gaussian", "CondLeaf", "CondBernoulli"} ->
                          marginalize_Node(h, n, marg_rvs, prune, st1)
                    [] h[n].kind = "MVG" ->
                          marginalize_MultivariateGaussian(h, n, marg_rvs, prune, st1)
                    [] h[n].kind = "CondLeafLayer" ->
                          marginalize_CondGaussianLayer(h, n, marg_rvs, prune, st1)
                    [] h[n].kind = "CondBernoulliLayer" ->
                          marginalize_CondBernoulliLayer(h, n, marg_rvs, prune, st1)
                    [] h[n].kind = "LeafLayer" ->
                          marginalize_LeafLayer(h, n, marg_rvs, prune, st1)
                    [] h[n].kind = "Sum" ->
                          marginalize_SPNSumNode(h, n, marg_rvs, prune, st1)
                    [] h[n].kind = "Product" ->
                          marginalize_SPNProductNode(h, n, marg_rvs, prune, st1)
                    [] h[n].kind = "SumLayer" ->
                          marginalize_SumLayer(h, n, marg_rvs, prune, st1)
                    [] h[n].kind = "RatSPN" ->
                          marginalize_RatSPN(h, n, marg_rvs, prune, st1)
         IN IF r.err THEN r ELSE [r EXCEPT !.st = Memoize(r.st, n, r.id)]

----------------------------------------------------------------------------
(* Top-level marginalize call with a fresh dispatch context *)

NewCondBernoulliLayerCall(vs, cf) ==
    [op |-> "CondBernoulliLayer", sc |-> [j \in 1..Len(vs) |-> Var(vs[j])], ch |-> <<>>,
     w |-> W1(<<>>), p |-> <<>>, cf |-> cf, n |-> Len(vs)]

NewCondBernoulliLayer ==
    /\ Building /\ NextCall.op = "CondBernoulliLayer"
    /\ Constructed(CondBernoulliLayer(heap, NextCall.sc, NextCall.cf))

NewMVGCall(vs, mean, cov) ==
    [op |-> "MVG", sc |-> <<Scope(vs, <<>>)>>, ch |-> <<>>, w |-> W1(<<>>),
     p |-> <<mean, cov>>, cf |-> NoCondF, n |-> 1]

NewMultivariateGaussian ==
    /\ Building /\ NextCall.op = "MVG"
    /\ Constructed(MultivariateGaussian(heap, NextCall.sc[1], NextCall.p[1], NextCall.p[2]))

\* mean vectors and covariance matrices of two and three variables
Mean2 == <<Q(1, 1), Q(2, 1)>>
Cov2 == << <<Q(4, 1), Q(6, 1)>>,
           <<Q(6, 1), Q(25, 1)>> >>
Mean3 == <<Q(1, 1), Q(2, 1), Q(3, 1)>>
Cov3 == << <<Q(4, 1), Q(6, 1), Q(0, 1)>>,
           <<Q(6, 1), Q(25, 1), Q(0, 1)>>,
           <<Q(0, 1), Q(0, 1), Q(1, 1)>> >>

\* circuits over up to three variables
ScriptsMarg ==
    { <<NewMVGCall(<<0, 1>>, Mean2, Cov2)>>,
      <<NewMVGCall(<<1, 2>>, Mean2, Cov2)>>,
      <<NewMVGCall(<<1, 0>>, Mean2, Cov2)>>,
      <<NewMVGCall(<<0, 1, 2>>, Mean3, Cov3)>>,
      <<NewMVGCall(<<0, 1>>, Mean2, Cov2), NewLeafCall(2, Q(1, 2)),
        NewProductCall(<<1, 2>>)>>,
      <<NewCondLeafLayerCall(<<0, 1>>, NoCondF)>>,
      <<NewCondLeafLayerCall(<<0, 1>>, CondF(Params(Scalar(Q(1, 4)), Scalar(Q(3, 1)))))>>,
      <<NewCondBernoulliLayerCall(<<0, 1>>, CondF("p" :> Array(<<Q(1, 4), Q(1, 2)>>)))>>,
      \* a leaf layer with two outputs over the same variable
      <<NewLeafLayerCall(<<0, 0, 1>>, <<Q(1, 3), Q(3, 4), Q(1, 2)>>)>>,
      <<NewLeafLayerCall(<<0, 1, 0>>, <<Q(1, 3), Q(3, 4), Q(1, 2)>>)>>,
      <<NewLeafCall(0, Q(1, 3)), NewLeafCall(1, Q(3, 4)), NewProductCall(<<1, 2>>)>>,
      <<NewLeafCall(0, Q(1, 3)), NewLeafCall(1, Q(3, 4)), NewLeafCall(2, Q(1, 2)),
        NewProductCall(<<1, 2, 3>>)>>,
      <<NewLeafCall(0, Q(1, 3)), NewLeafCall(1, Q(3, 4)),
        NewLeafCall(0, Q(1, 2)), NewLeafCall(1, Q(1, 4)),
        NewProductCall(<<1, 2>>), NewProductCall(<<3, 4>>),
        NewSumCall(<<5, 6>>, <<Q(3, 10), Q(7, 10)>>)>>,
      <<NewLeafCall(0, Q(1, 3)), NewLeafCall(1, Q(3, 4)),
        NewLeafCall(0, Q(1, 2)), NewLeafCall(1, Q(1, 4)),
        NewProductCall(<<1, 2>>), NewProductCall(<<3, 4>>),
        NewSumLayerCall(2, <<5, 6>>, << <<Q(4, 5), Q(1, 5)>>, <<Q(1, 2), Q(1, 2)>> >>)>>,
      <<NewLeafLayerCall(<<0, 1>>, <<Q(1, 3), Q(3, 4)>>), NewProductCall(<<1>>)>>,
      <<NewLeafLayerCall(<<0, 1, 2>>, <<Q(1, 3), Q(3, 4), Q(1, 2)>>),
        NewProductCall(<<1>>)>>,
      \* a leaf shared by two products
      <<NewLeafCall(0, Q(1, 3)), NewLeafCall(1, Q(1, 2)), NewLeafCall(1, Q(3, 4)),
        NewProductCall(<<1, 2>>), NewProductCall(<<1, 3>>),
        NewSumCall(<<4, 5>>, <<Q(2, 5), Q(3, 5)>>)>>,
      \* a sum over products of leaf layers
      <<NewLeafLayerCall(<<0, 1, 2>>, <<Q(1, 3), Q(3, 4), Q(1, 2)>>),
        NewProductCall(<<1>>),
        NewLeafLayerCall(<<0, 1, 2>>, <<Q(1, 2), Q(1, 4), Q(2, 3)>>),
        NewProductCall(<<3>>),
        NewSumCall(<<2, 4>>, <<Q(2, 5), Q(3, 5)>>)>>,
      \* a sum below a product
      <<NewLeafCall(0, Q(1, 3)), NewLeafCall(1, Q(3, 4)),
        NewLeafCall(0, Q(1, 2)), NewLeafCall(1, Q(1, 4)),
        NewProductCall(<<1, 2>>), NewProductCall(<<3, 4>>),
        NewSumCall(<<5, 6>>, <<Q(3, 10), Q(7, 10)>>),
        NewLeafCall(2, Q(1, 2)), NewProductCall(<<7, 8>>)>> }

Marginalize ==
    /\ Built /\ out.op \notin {"marginalize", "marginalize_again"}
    /\ \E root \in 1..Len(heap), marg_rvs \in SUBSET RVs, prune \in BOOLEAN :
          \E r \in {marginalize(heap, root, marg_rvs, prune, NewCtx(heap, EmptyMap))} :
             /\ heap' = r.heap
             /\ ctx' = r.st
             /\ out' = [NoOut EXCEPT !.op = "marginalize", !.root = root, !.err = r.err,
                                     !.res = r.id, !.rvs = marg_rvs, !.prune = prune]
    /\ UNCHANGED <<script, pc, data>>

\* a second top-level call, on the circuit the first call returned
MarginalizeAgain ==
    /\ Built /\ out.op = "marginalize" /\ ~out.err /\ out.res # None
    /\ \E marg_rvs \in SUBSET RVs :
          \E r \in {marginalize(heap, out.res, marg_rvs, out.prune, NewCtx(heap, EmptyMap))} :
             /\ heap' = r.heap
             /\ ctx' = r.st
             /\ out' = [out EXCEPT !.op = "marginalize_again", !.err = r.err,
                                   !.rvs2 = marg_rvs, !.res2 = r.id]
    /\ UNCHANGED <<script, pc, data>>

InitMarg ==
    /\ script \in ScriptsMarg
    /\ heap = <<>>
    /\ pc = 0
    /\ ctx = NewCtx(<<>>, EmptyMap)
    /\ data = <<>>
    /\ out = NoOut

NextMarg ==
    \/ NewLeaf
    \/ NewLeafLayer
    \/ NewSumNode
    \/ NewProductNode
    \/ NewSumLayer
    \/ NewMultivariateGaussian
    \/ NewCondLeafLayer
    \/ NewCondBernoulliLayer
    \/ Marginalize
    \/ MarginalizeAgain

SpecMarg == InitMarg /\ [][NextMarg]_vars

----------------------------------------------------------------------------
(* Properties of marginalization *)

Marginalized == out.op = "marginalize"

\* the objects of the circuit that marginalize was given: those the script built
Originals == 1..pc

Disjoint(m, marg_rvs) == mutual_rvs(m, marg_rvs) = {}
Partial(m, marg_rvs) == ~Disjoint(m, marg_rvs) /\ ~FullyMarginalized(m, marg_rvs)

\* the circuits below a and b have the same shape, scopes, weights and parameters
RECURSIVE SameCircuit(_, _, _)
SameCircuit(h, a, b) ==
    /\ [h[a] EXCEPT !.children = <<>>] = [h[b] EXCEPT !.children = <<>>]
    /\ Len(h[a].children) = Len(h[b].children)
    /\ \A i \in 1..Len(h[a].children) : SameCircuit(h, h[a].children[i], h[b].children[i])

\* the results of marginalizing the children of n that are not None, in order
Survivors(n) ==
    LET res == [i \in 1..Len(heap[n].children) |-> ctx.cache[heap[n].children[i]]]
    IN FilterIdx(res, [i \in 1..Len(res) |-> res[i] # None], 1)

\* C8: a marginalize call leaves every object of the circuit it is given as it
\* was (children, scopes, weights, parameters), whatever the eliminated set and
\* prune, whether it returns or raises; a sum or product whose scope is disjoint
\* from the eliminated set is returned as a deep copy: an equal circuit made of
\* new objects only.
C8_InputNotMutated ==
    [][ (out'.op = "marginalize" /\ out.op # "marginalize") =>
          /\ Len(heap') >= Len(heap)
          /\ \A i \in 1..Len(heap) : heap'[i] = heap[i]
          /\ \A n \in DOMAIN ctx'.cache :
                ( /\ heap[n].kind \in {"Sum", "Product"}
                  /\ Disjoint(heap[n], out'.rvs) )
                => /\ ctx'.cache[n] \notin 0..Len(heap)
                   /\ SameCircuit(heap', n, ctx'.cache[n])
                   /\ Reach(heap', ctx'.cache[n]) \cap (1..Len(heap)) = {} ]_vars

\* a sum over products was marginalized over a non-empty set disjoint from its
\* scope and a copy came back
C8_Witness ==
    /\ Marginalized /\ ~out.err
    /\ heap[out.root].kind = "Sum"
    /\ out.rvs # {} /\ Disjoint(heap[out.root], out.rvs)
    /\ out.res \notin Originals /\ out.res # None
    /\ Len(heap) = pc + Cardinality(Reach(heap, out.root))

\* C9: when the partial marginalization of a product node leaves exactly one
\* surviving child, prune = true returns that marginalized child itself and
\* prune = false returns a product node with exactly that one child.
C9_PruneReturnsChild ==
    (Marginalized /\ ~out.err) =>
        \A n \in DOMAIN ctx.cache :
            ( /\ heap[n].kind = "Product"
              /\ Partial(heap[n], out.rvs)
              /\ Len(Survivors(n)) = 1 )
            => IF out.prune
               THEN ctx.cache[n] = Survivors(n)[1]
               ELSE /\ ctx.cache[n] \notin Originals \cup {None, Survivors(n)[1]}
                    /\ heap[ctx.cache[n]].kind = "Product"
                    /\ heap[ctx.cache[n]].children = Survivors(n)

\* a product of two leaves lost one of them, and with prune the copy of the
\* other leaf came back
C9_Witness ==
    /\ Marginalized /\ ~out.err /\ out.prune
    /\ heap[out.root].kind = "Product"
    /\ Partial(heap[out.root], out.rvs)
    /\ Len(heap[out.root].children) >= 2
    /\ Len(Survivors(out.root)) = 1
    /\ out.res = Survivors(out.root)[1]
    /\ heap[out.res].kind = "Leaf"

\* C10: a partially marginalized sum node or sum layer that marginalize returns
\* is a new sum of the same kind over the surviving marginalized children, with
\* the weights of the original, same values in the same order.
C10_WeightsKept ==
    (Marginalized /\ ~out.err) =>
        \A n \in DOMAIN ctx.cache :
            ( /\ heap[n].kind \in {"Sum", "SumLayer"}
              /\ Partial(heap[n], out.rvs) )
            => LET r == ctx.cache[n]
               IN /\ r \notin Originals \cup {None}
                  /\ heap[r].kind = heap[n].kind
                  /\ heap[r].children = Survivors(n)
                  /\ weights(heap[r]) = weights(heap[n])

\* a sum with unequal weights was partially marginalized
C10_Witness ==
    /\ Marginalized /\ ~out.err
    /\ heap[out.root].kind \in {"Sum", "SumLayer"}
    /\ Partial(heap[out.root], out.rvs)
    /\ out.res # None
    /\ LET w == Flatten(IF heap[out.root].kind = "Sum" THEN <<weights(heap[out.res])>>
                        ELSE weights(heap[out.res]))
       IN w[1] # w[2]

\* C11: marginalizing a circuit (combinator, leaf, multivariate leaf or layer)
\* by the empty set returns a circuit structurally equivalent to the one it
\* was given: same shape, same scopes, same parameters and conditioning
\* functions, hence the same likelihood on every data batch.
C11_EmptySetIsNeutral ==
    (Marginalized /\ out.rvs = {}) =>
        /\ ~out.err
        /\ out.res # None
        /\ SameCircuit(heap, out.root, out.res)

MarginalizedAgain == out.op = "marginalize_again"

\* the circuits below a in h1 and below b in h2 have the same shape, scopes,
\* weights and parameters, or both are None
RECURSIVE SameResult(_, _, _, _)
SameResult(h1, a, h2, b) ==
    IF a = None \/ b = None THEN a = b
    ELSE /\ [h1[a] EXCEPT !.children = <<>>] = [h2[b] EXCEPT !.children = <<>>]
         /\ Len(h1[a].children) = Len(h2[b].children)
         /\ \A i \in 1..Len(h1[a].children) :
               SameResult(h1, h1[a].children[i], h2, h2[b].children[i])

\* marginalize(C, A \cup B) on the circuit the script built
MarginalizeUnion ==
    LET C == SubSeq(heap, 1, pc)
    IN marginalize(C, out.root, out.rvs \cup out.rvs2, out.prune, NewCtx(C, EmptyMap))

\* C12: marginalize(marginalize(C, A), B) and marginalize(C, A \cup B) give
\* circuits with the same scopes and the same likelihood on every batch: both
\* raise, or both return None, or both return circuits of the same shape with
\* the same scopes, weights and parameters.
C12_Composition ==
    MarginalizedAgain =>
        /\ out.err <=> MarginalizeUnion.err
        /\ ~out.err => SameResult(heap, out.res2, MarginalizeUnion.heap, MarginalizeUnion.id)

\* the outputs of leaf layer m whose variable is not eliminated, in order
SurvivingOutputs(m) ==
    SortedSeq({j \in 1..n_out(m) : m.scopes_out[j].query[1] \notin out.rvs})

SurvivingPositions(m) ==
    SortedSeq({k \in 1..Len(m.scopes_out[1].query) : m.scopes_out[1].query[k] \notin out.rvs})

\* C14: partially marginalizing a multivariate Gaussian leaf, whatever its query
\* scope, returns a Gaussian leaf over the surviving variables in their original
\* order whose mean vector and covariance matrix are the original mean entries
\* and covariance rows and columns of those variables; with one survivor, a
\* univariate Gaussian with that variable's mean and standard deviation.
C14_MarginalOfGaussian ==
    Marginalized =>
        \A n \in Reach(heap, out.root) :
            (heap[n].kind = "MVG" /\ Partial(heap[n], out.rvs)) =>
                /\ ~out.err
                /\ n \in DOMAIN ctx.cache
                /\ ctx.cache[n] # None
                /\ LET m == heap[n]
                       pos == SurvivingPositions(m)
                       r == heap[ctx.cache[n]]
                   IN /\ r.scopes_out[1].query =
                            [k \in 1..Len(pos) |-> m.scopes_out[1].query[pos[k]]]
                      /\ IF Len(pos) = 1
                         THEN /\ r.kind = "Gaussian"
                              /\ r.params = <<mean_of(m)[pos[1]],
                                              RSqrt(cov_of(m)[pos[1]][pos[1]])>>
                         ELSE /\ r.kind = "MVG"
                              /\ mean_of(r) = [k \in 1..Len(pos) |-> mean_of(m)[pos[k]]]
                              /\ cov_of(r) = [k \in 1..Len(pos) |->
                                    [l \in 1..Len(pos) |-> cov_of(m)[pos[k]][pos[l]]]]

----------------------------------------------------------------------------
(* Sampling from multivariate Gaussian leaves.  A data batch is a sequence  *)
(* of rows of rationals; NaNQ is the missing value, and arithmetic on it    *)
(* gives NaNQ.  Instance ids and variables count from 0, positions from 1.  *)

NAdd(a, b) == IF isnan(a) \/ isnan(b) THEN NaNQ ELSE RAdd(a, b)
NSub(a, b) == IF isnan(a) \/ isnan(b) THEN NaNQ ELSE RSub(a, b)
NMul(a, b) == IF isnan(a) \/ isnan(b) THEN NaNQ ELSE RMul(a, b)

RECURSIVE NSum(_)
NSum(s) == IF s = <<>> THEN RZero ELSE NAdd(Head(s), NSum(Tail(s)))

\* A @ B
matmul(A, B) ==
    [i \in 1..Len(A) |-> [j \in 1..Len(B[1]) |->
        RSum([k \in 1..Len(B) |-> RMul(A[i][k], B[k][j])])]]

\* np.linalg.inv of a positive definite matrix of one or two rows
inv(A) ==
    IF Len(A) = 1 THEN << <<RDiv(ROne, A[1][1])>> >>
    ELSE LET det == RSub(RMul(A[1][1], A[2][2]), RMul(A[1][2], A[2][1]))
         IN << <<RDiv(A[2][2], det), RDiv(RSub(RZero, A[1][2]), det)>>,
               <<RDiv(RSub(RZero, A[2][1]), det), RDiv(A[1][1], det)>> >>

\* the rows A[rs] restricted to the columns cs
ix_(A, rs, cs) == [i \in 1..Len(rs) |-> [j \in 1..Len(cs) |-> A[rs[i]][cs[j]]]]

\* all boolean rows of length d in sorted order, False before True
RECURSIVE AllMasks(_)
AllMasks(d) ==
    IF d = 0 THEN << <<>> >>
    ELSE LET r == AllMasks(d - 1)
         IN [k \in 1..Len(r) |-> <<FALSE>> \o r[k]] \o [k \in 1..Len(r) |-> <<TRUE>> \o r[k]]

\* np.unique(nan_data, axis=0): the distinct rows, sorted
unique(nan_data, d) ==
    SelectSeq(AllMasks(d), LAMBDA mask : \E k \in 1..Len(nan_data) : nan_data[k] = mask)

\* np.nonzero of a boolean row, as positions
nonzero(mask) == SortedSeq({p \in 1..Len(mask) : mask[p]})
Not(mask) == [p \in 1..Len(mask) |-> ~mask[p]]

\* the positions of nan_data whose row equals nan_mask, in order
matching(nan_data, nan_mask) ==
    SortedSeq({k \in 1..Len(nan_data) : nan_data[k] = nan_mask})

\* a negative index counts from the end
wrap(i, N) == IF i < 0 THEN i + N ELSE i

\* data[index] = values with the writes applied in order: the last write to an
\* entry is the one that stays
RECURSIVE index_put(_, _)
index_put(dat, writes) ==
    IF writes = <<>> THEN dat
    ELSE LET w == Head(writes)
         IN index_put([dat EXCEPT ![w.row][w.col] = w.val], Tail(writes))

Reverse(s) == [k \in 1..Len(s) |-> s[Len(s) + 1 - k]]

\* joint_samples[:, ~cond_mask] + (x - joint_samples[:, cond_mask]) @
\* (inv(cov[cond, cond]) @ cov[cond, ~cond]) for one row: x holds the values
\* read for the conditioning positions, joint is the row's joint sample
conditional(cov, nan_mask, x, joint) ==
    LET cond == nonzero(Not(nan_mask))
        non_cond == nonzero(nan_mask)
        marg_cov_inv == inv(ix_(cov, cond, cond))
        cond_cov == ix_(cov, cond, non_cond)
        M == matmul(marg_cov_inv, cond_cov)
    IN [t \in 1..Len(non_cond) |->
           NAdd(joint[non_cond[t]],
                NSum([c \in 1..Len(cond) |-> NMul(NSub(x[c], joint[cond[c]]), M[c][t])]))]

\* the writes of the conditioned branch: for the j-th sampled row, the
\* conditioning values are read from, and the results written to, the data
\* columns numbered as the positions of the mask
conditional_writes(cov, dat, rows, nan_mask, joint_samples) ==
    LET cond == nonzero(Not(nan_mask))
        non_cond == nonzero(nan_mask)
    IN Flatten([j \in 1..Len(rows) |->
           LET x == [c \in 1..Len(cond) |-> dat[rows[j]][cond[c]]]
               v == conditional(cov, nan_mask, x, joint_samples[j])
           IN [t \in 1..Len(non_cond) |->
                  [row |-> rows[j], col |-> non_cond[t], val |-> v[t]]]])

\* the writes data[np.ix_(sampling_ids, cols)] = samples
full_writes(rows, cols, joint_samples) ==
    Flatten([j \in 1..Len(rows) |->
        [t \in 1..Len(cols) |-> [row |-> rows[j], col |-> cols[t], val |-> joint_samples[j][t]]]])

\* leaf.dist.rvs(size): the next size samples of the generator's stream
rvs(stream, size) == SubSeq(stream, 1, size)
advance(stream, size) == SubSeq(stream, size + 1, Len(stream))

\* one pass of the loop of sample (base MultivariateGaussian) for nan_mask
sample_group(m, acc, instance_ids, nan_data, nan_mask) ==
    LET query == m.scopes_out[1].query
        N == Len(acc.data)
        sel == matching(nan_data, nan_mask)
        sampling_rows == [j \in 1..Len(sel) |-> wrap(instance_ids[sel[j]], N) + 1]
        joint_samples == rvs(acc.stream, Len(sel))
        writes == IF Len(nonzero(nan_mask)) = Len(query)
                  THEN full_writes(sampling_rows, [p \in 1..Len(query) |-> query[p] + 1],
                                   joint_samples)
                  ELSE conditional_writes(cov_of(m), acc.data, sampling_rows, nan_mask,
                                          joint_samples)
    IN IF Len(nonzero(nan_mask)) = 0 THEN acc
       ELSE [err |-> FALSE, data |-> index_put(acc.data, writes),
             stream |-> advance(acc.stream, Len(sel))]

RECURSIVE sample_groups(_, _, _, _, _)
sample_groups(m, acc, instance_ids, nan_data, masks) ==
    IF masks = <<>> THEN acc
    ELSE sample_groups(m, sample_group(m, acc, instance_ids, nan_data, Head(masks)),
                       instance_ids, nan_data, Tail(masks))

\* sample (base MultivariateGaussian): [err, data, stream]
sample_MultivariateGaussian(m, dat, instance_ids, stream) ==
    LET N == Len(dat)
        query == m.scopes_out[1].query
        ValueError == \E k \in 1..Len(instance_ids) : instance_ids[k] >= N
        IndexError == \E k \in 1..Len(instance_ids) : instance_ids[k] < -N
        nan_data == [k \in 1..Len(instance_ids) |->
                        [p \in 1..Len(query) |->
                            isnan(dat[wrap(instance_ids[k], N) + 1][query[p] + 1])]]
    IN IF ValueError \/ IndexError THEN [err |-> TRUE, data |-> dat, stream |-> stream]
       ELSE sample_groups(m, [err |-> FALSE, data |-> dat, stream |-> stream],
                          instance_ids, nan_data, unique(nan_data, Len(query)))

\* a conditional multivariate Gaussian leaf; mean and cov_tril stand for the
\* values its cond_f returns
CondMultivariateGaussian(h, sc, mean, cov_tril) ==
    IF Cardinality(Range(sc.query)) # Len(sc.query) THEN Raised(h)
    ELSE Created(h, MkModule("CondMVG", <<sc>>, <<>>, <<>>, <<mean, cov_tril>>, NoCondF))

\* a variant of sampling_ids that takes the positions of the matching rows
sampling_ids_positions(instance_ids, sel) == [j \in 1..Len(sel) |-> sel[j] - 1]

\* torch.tensor(instance_ids)[mask]: the instance ids at the selected positions
sampling_ids(instance_ids, sel) == [j \in 1..Len(sel) |-> instance_ids[sel[j]]]

\* one pass of the loop of sample (torch CondMultivariateGaussian) for nan_mask;
\* nan_data has one row per data row, and the mask it gives must have the
\* length of instance_ids; last tells which of several writes to one entry stays
sample_group_cond(m, acc, instance_ids, nan_data, nan_mask, last) ==
    LET query == m.scopes_out[1].query
        N == Len(acc.data)
        non_cond_rvs == nonzero(nan_mask)
        sel == matching(nan_data, nan_mask)
        ids == sampling_ids(instance_ids, sel)
        sampling_rows == [j \in 1..Len(sel) |-> wrap(ids[j], N) + 1]
        joint_samples == rvs(acc.stream, Len(sel))
        writes == IF Len(non_cond_rvs) = Len(query)
                  THEN full_writes(sampling_rows, non_cond_rvs, joint_samples)
                  ELSE conditional_writes(cov_of(m), acc.data, sampling_rows, nan_mask,
                                          joint_samples)
    IN IF acc.err \/ Len(non_cond_rvs) = 0 THEN acc
       ELSE IF Len(instance_ids) # Len(nan_data) THEN [acc EXCEPT !.err = TRUE]
       ELSE IF \E j \in 1..Len(ids) : ids[j] < -N THEN [acc EXCEPT !.err = TRUE]
       ELSE [err |-> FALSE,
             data |-> index_put(acc.data, IF last THEN writes ELSE Reverse(writes)),
             stream |-> advance(acc.stream, Len(sel))]

RECURSIVE sample_groups_cond(_, _, _, _, _, _)
sample_groups_cond(m, acc, instance_ids, nan_data, masks, last) ==
    IF masks = <<>> THEN acc
    ELSE sample_groups_cond(m,
             sample_group_cond(m, acc, instance_ids, nan_data, Head(masks), last),
             instance_ids, nan_data, Tail(masks), last)

\* sample (torch CondMultivariateGaussian): [err, data, stream]
sample_CondMultivariateGaussian(m, dat, instance_ids, stream, last) ==
    LET N == Len(dat)
        query == m.scopes_out[1].query
        ValueError == \E k \in 1..Len(instance_ids) : instance_ids[k] >= N
        nan_data == [r \in 1..N |-> [p \in 1..Len(query) |-> isnan(dat[r][query[p] + 1])]]
    IN IF ValueError THEN [err |-> TRUE, data |-> dat, stream |-> stream]
       ELSE sample_groups_cond(m, [err |-> FALSE, data |-> dat, stream |-> stream],
                               instance_ids, nan_data, unique(nan_data, Len(query)), last)

\* sample, dispatched on the kind of leaf
sample(m, dat, instance_ids, stream, last) ==
    IF m.kind = "MVG" THEN sample_MultivariateGaussian(m, dat, instance_ids, stream)
    ELSE sample_CondMultivariateGaussian(m, dat, instance_ids, stream, last)

NewCondMVGCall(vs, mean, cov_tril) ==
    [op |-> "CondMVG", sc |-> <<Scope(vs, <<>>)>>, ch |-> <<>>, w |-> W1(<<>>),
     p |-> <<mean, cov_tril>>, cf |-> NoCondF, n |-> 1]

NewCondMultivariateGaussian ==
    /\ Building /\ NextCall.op = "CondMVG"
    /\ Constructed(CondMultivariateGaussian(heap, NextCall.sc[1], NextCall.p[1],
                                            NextCall.p[2]))

\* the lower triangular factor of Cov2
Tril2 == << <<Q(2, 1), Q(0, 1)>>,
            <<Q(3, 1), Q(4, 1)>> >>

ScriptsSample ==
    { <<NewMVGCall(<<0, 1>>, Mean2, Cov2)>>,
      <<NewMVGCall(<<1, 0>>, Mean2, Cov2)>>,
      <<NewMVGCall(<<0, 1, 2>>, Mean3, Cov3)>>,
      <<NewCondMVGCall(<<0, 1>>, Mean2, Tril2)>> }

\* the observed value of the entry in row r and column c
Obs(r, c) == Q(10 * r + c, 1)

\* data batches of up to MaxRows rows and 2 * MaxRows entries: every entry is
\* missing or holds its observed value
SampleBatches(ncols) ==
    UNION { { [r \in 1..k |-> [c \in 1..ncols |-> IF miss[r][c] THEN NaNQ ELSE Obs(r, c)]] :
                miss \in [1..k -> [1..ncols -> BOOLEAN]] } :
            k \in {n \in 1..MaxRows : n * ncols <= 2 * MaxRows} }

\* instance ids of a sampling context for N rows: the rows, one past the last
\* row, the last row counted from the end (-1), and one before the first row
\* counted from the end
InstanceIds(N) == UNION {[1..k -> {-N - 1, -1} \cup (0..N)] : k \in 0..MaxRows}

\* the streams of joint samples a generator may give for d variables
Streams(d) ==
    { [k \in 1..MaxRows |-> [p \in 1..d |-> Q(2 * ((k + s) % 2) + p + 1, 1)]] : s \in {0, 1} }

Sample ==
    /\ Built /\ out.op # "sample" /\ ~out.err
    /\ \E dat \in SampleBatches(NumCols(heap)) :
       \E instance_ids \in InstanceIds(Len(dat)),
          stream \in Streams(Len(heap[pc].scopes_out[1].query)),
          last \in (IF heap[pc].kind = "MVG" THEN {TRUE} ELSE BOOLEAN) :
            \E r \in {sample(heap[pc], dat, instance_ids, stream, last)} :
               /\ data' = r.data
               /\ out' = [NoOut EXCEPT !.op = "sample", !.root = pc, !.err = r.err,
                                       !.val = dat, !.ids = instance_ids,
                                       !.joint = stream]
    /\ UNCHANGED <<heap, script, pc, ctx>>

InitSample ==
    /\ script \in ScriptsSample
    /\ heap = <<>>
    /\ pc = 0
    /\ ctx = NewCtx(<<>>, EmptyMap)
    /\ data = <<>>
    /\ out = NoOut

NextSample ==
    \/ NewMultivariateGaussian
    \/ NewCondMultivariateGaussian
    \/ Sample

SpecSample == InitSample /\ [][NextSample]_vars

----------------------------------------------------------------------------
(* Properties of sampling.  out.val is the batch the call was given, data   *)
(* the batch after the call.                                                *)

Sampled == out.op = "sample"
SampledLeaf == heap[out.root]
RowIds == 0..(Len(out.val) - 1)
ValidIds == \A k \in 1..Len(out.ids) : out.ids[k] \in RowIds

\* C15: sampling fails with a bounds error, before anything is written into the
\* batch, whenever some instance id is not a row index of the batch; an invalid
\* id is never wrapped around.
C15_InvalidIdFails ==
    (Sampled /\ ~ValidIds) => (out.err /\ data = out.val)

\* C16: sampling changes only the rows whose index is listed in the instance
\* ids of the sampling context (ids that are row indexes of the batch); every
\* other row is as before the call, so its missing entries stay missing.  This
\* holds whether the call returns or raises.
C16_OnlySelectedRows ==
    (Sampled /\ ValidIds) =>
        \A r \in 1..Len(out.val) :
            (r - 1) \notin Range(out.ids) => data[r] = out.val[r]

\* the conditional leaf was sampled for one row of two, that row changed and
\* the row not listed still has a missing entry
C16_Witness ==
    /\ Sampled /\ ValidIds /\ ~out.err
    /\ SampledLeaf.kind = "CondMVG"
    /\ \E r, u \in 1..Len(out.val) :
          /\ (r - 1) \in Range(out.ids) /\ data[r] # out.val[r]
          /\ (u - 1) \notin Range(out.ids)
          /\ \E c \in 1..Len(out.val[u]) : isnan(out.val[u][c]) /\ isnan(data[u][c])

\* C17: sampling from a leaf, whatever its query scope, writes only into
\* entries that are missing and lie in the columns of the leaf's query
\* variables; observed entries and the columns outside the scope keep their
\* values.
C17_OnlyMissingInScope ==
    (Sampled /\ ValidIds) =>
        \A r \in 1..Len(out.val) : \A c \in 1..Len(out.val[r]) :
            data[r][c] # out.val[r][c] =>
                /\ isnan(out.val[r][c])
                /\ (c - 1) \in Range(SampledLeaf.scopes_out[1].query)

\* which variables of the sampled leaf's scope are missing in row r of the batch
\* the call was given, by position in the scope
MissingOf(r) ==
    [p \in 1..Len(SampledLeaf.scopes_out[1].query) |->
        isnan(out.val[r][SampledLeaf.scopes_out[1].query[p] + 1])]

PartialPattern(mask) == (\E p \in 1..Len(mask) : mask[p]) /\ (\E p \in 1..Len(mask) : ~mask[p])

\* C18: for every selected row with a partial missingness pattern, the values
\* written into the missing variables are the missing part of one unconditional
\* joint sample plus (observed values of the row minus the observed part of that
\* sample) times inverse(covariance of the observed variables) times
\* (covariance between observed and missing variables), observed and missing
\* being variables of the leaf's scope.
C18_ConditionalSample ==
    (Sampled /\ ValidIds /\ ~out.err) =>
        \A r \in 1..Len(out.val) :
            ((r - 1) \in Range(out.ids) /\ PartialPattern(MissingOf(r))) =>
                LET query == SampledLeaf.scopes_out[1].query
                    mask == MissingOf(r)
                    observed == nonzero(Not(mask))
                    missing == nonzero(mask)
                    x == [c \in 1..Len(observed) |-> out.val[r][query[observed[c]] + 1]]
                IN \E k \in 1..Len(out.joint) :
                      LET v == conditional(cov_of(SampledLeaf), mask, x, out.joint[k])
                      IN \A t \in 1..Len(missing) :
                            data[r][query[missing[t]] + 1] = v[t]

----------------------------------------------------------------------------
(* Construction of sum and product nodes over a pool of leaves *)

MaxChildren == 2

\* the modules a constructor may be given as children
Pool ==
    <<NewLeafCall(0, Q(1, 3)), NewLeafCall(0, Q(3, 4)), NewLeafCall(1, Q(1, 2)),
      NewLeafLayerCall(<<0, 0>>, <<Q(1, 3), Q(3, 4)>>),
      NewLeafLayerCall(<<0, 1>>, <<Q(1, 3), Q(3, 4)>>),
      NewMVGCall(<<0, 1>>, Mean2, Cov2),
      NewMVGCall(<<1, 0>>, Mean2, Cov2)>>

ChildLists == UNION {[1..k -> 1..Len(Pool)] : k \in 0..MaxChildren}

\* weight arguments: valid ones, a zero and a negative entry, sums other than
\* one, and two-dimensional ones (a tensor of one row, v holding that row)
WeightArgs ==
    { W1(<<Q(1, 1)>>),
      W1(<<Q(1, 2), Q(1, 2)>>),
      W1(<<Q(1, 4), Q(3, 4)>>),
      W1(<<Q(1, 4), Q(1, 4), Q(1, 2)>>),
      W1(<<Q(1, 4), Q(1, 4), Q(1, 4), Q(1, 4)>>),
      W1(<<Q(1, 1), Q(0, 1)>>),
      W1(<<Q(3, 2), Q(-1, 2)>>),
      W1(<<Q(1, 2), Q(1, 4)>>),
      W1(<<Q(3, 4), Q(3, 4)>>),
      [W1(<<Q(1, 2), Q(1, 2)>>) EXCEPT !.ndim = 2],
      [W1(<<Q(1, 1)>>) EXCEPT !.ndim = 2] }

ScriptsCtor ==
    {Pool \o <<[NewSumCall(ch, <<>>) EXCEPT !.w = w]>> : ch \in ChildLists, w \in WeightArgs}
    \cup {Pool \o <<NewProductCall(ch)>> : ch \in ChildLists}

InitCtor ==
    /\ script \in ScriptsCtor
    /\ heap = <<>>
    /\ pc = 0
    /\ ctx = NewCtx(<<>>, EmptyMap)
    /\ data = <<>>
    /\ out = NoOut

NextCtor ==
    \/ NewLeaf
    \/ NewLeafLayer
    \/ NewMultivariateGaussian
    \/ NewSumNode
    \/ NewProductNode

SpecCtor == InitCtor /\ [][NextCtor]_vars

----------------------------------------------------------------------------
(* Properties of construction *)

\* the constructor call that was made last, and the scopes of the outputs of
\* the children it was given
LastCall == script[pc]
Called(op) == pc = Len(script) /\ out.op = "construct" /\ LastCall.op = op
GivenScopes == Flatten([i \in 1..Len(LastCall.ch) |-> heap[LastCall.ch[i]].scopes_out])
Vars(sc) == {sc.query[k] : k \in 1..Len(sc.query)}

ValidWeights(w, n) ==
    /\ w.ndim = 1
    /\ Len(w.v) = n
    /\ \A i \in 1..Len(w.v) : w.v[i][1] > 0
    /\ RSum(w.v) = ROne

C20_ProductNodeConstruction ==
    Called("Product") =>
        /\ ~out.err <=>
              /\ Len(LastCall.ch) >= 1
              /\ \A i, j \in 1..Len(GivenScopes) :
                    i # j => Vars(GivenScopes[i]) \cap Vars(GivenScopes[j]) = {}
        /\ out.err => Len(heap) = pc - 1
        /\ ~out.err =>
              /\ heap[out.res].kind = "Product"
              /\ heap[out.res].children = LastCall.ch
              /\ Vars(scope(heap[out.res])) = UNION {Vars(GivenScopes[i]) : i \in 1..Len(GivenScopes)}
              /\ Len(scope(heap[out.res]).query) = Cardinality(Vars(scope(heap[out.res])))

\* a product node over two children with different variables was constructed
C20_Witness ==
    /\ Called("Product") /\ ~out.err
    /\ Len(LastCall.ch) = 2
    /\ Cardinality(Vars(scope(heap[out.res]))) >= 2

----------------------------------------------------------------------------
(* Conditional leaves: the scope at construction, and the validation of the *)
(* parameters that retrieve_params returns                                  *)

\* scopes a conditional leaf is constructed with: none, one or two query
\* variables, and none, one or two evidence variables
CondScopes ==
    {Scope(q, e) : q \in {<<>>, <<0>>, <<1>>, <<0, 1>>}, e \in {<<>>, <<2>>, <<2, 3>>}}

\* parameter entries: inside the ranges, at and beyond their ends, not finite
RateVals == {Q(1, 4), Q(2, 1), Q(0, 1), Q(-1, 1), NaNQ, Inf, <<-1, 0>>}
MeanVals == {Q(1, 4), NaNQ, Inf}
StdVals == {Q(3, 1), Q(0, 1), NaNQ, Inf}
ProbVals == {Q(1, 4), Q(0, 1), Q(1, 1), Q(2, 1), Q(-1, 4), NaNQ, Inf}

ScriptsCond ==
    {<<[NewCondLeafCall(0, cf) EXCEPT !.sc = <<sc>>]>> :
        sc \in CondScopes, cf \in {NoCondF} \cup {CondF("p" :> v) : v \in RateVals}}
    \cup {<<NewCondLeafLayerCall(<<0, 1>>, CondF(Params(Array(<<m1, m2>>), Array(<<s1, s2>>))))>> :
        m1 \in MeanVals, m2 \in {Q(1, 4), NaNQ}, s1 \in StdVals, s2 \in {Q(3, 1), NaNQ}}
    \cup {<<NewCondLeafLayerCall(<<0, 1>>, CondF(Params(Scalar(mu), Scalar(sd))))>> :
        mu \in MeanVals, sd \in StdVals}
    \cup {<<NewCondBernoulliLayerCall(<<0, 1>>, CondF("p" :> Array(<<p1, p2>>)))>> :
        p1 \in ProbVals, p2 \in {Q(1, 4), NaNQ}}
    \cup {<<NewCondBernoulliLayerCall(<<0, 1>>, cf)>> :
        cf \in {NoCondF, CondFList(<<"p" :> Scalar(Q(2, 1)), "p" :> Scalar(Q(1, 2))>>)}}

\* what a caller stores under a conditional leaf in dispatch_ctx.args
ArgsCond(h, n) ==
    {EmptyMap} \cup
    CASE h[n].kind = "CondLeaf" -> {(n :> ("p" :> v)) : v \in RateVals}
      [] h[n].kind = "CondLeafLayer" ->
            {(n :> Params(Array(<<Q(1, 4), mu>>), Array(<<sd, Q(3, 1)>>))) :
                mu \in MeanVals, sd \in StdVals}
      [] OTHER -> {(n :> ("p" :> Array(<<Q(1, 4), v>>))) : v \in ProbVals}

\* a call of retrieve_params on a conditional leaf or leaf layer
RetrieveCondParams ==
    /\ Built /\ out.op = "construct" /\ ~out.err
    /\ \E n \in 1..Len(heap) : \E args \in ArgsCond(heap, n) :
         LET st == NewCtx(heap, args)
             m == heap[n]
         IN /\ ctx' = st
            /\ \E r \in {CASE m.kind = "CondLeaf" ->
                              LET l == retrieve_params(m, n, "p", st)
                              IN [err |-> l.err, val |-> <<<<l.val>>>>]
                           [] m.kind = "CondLeafLayer" ->
                              LET g == retrieve_params_layer(m, n, st)
                              IN [err |-> g.err, val |-> <<g.mean, g.std>>]
                           [] OTHER ->
                              LET b == retrieve_params_CondBernoulliLayer(m, n, st)
                              IN [err |-> b.err, val |-> <<b.p>>]} :
                  out' = [NoOut EXCEPT !.op = "retrieve_params", !.root = n,
                                       !.err = r.err, !.val = r.val]
    /\ UNCHANGED <<heap, script, pc, data>>

InitCond ==
    /\ script \in ScriptsCond
    /\ heap = <<>>
    /\ pc = 0
    /\ ctx = NewCtx(<<>>, EmptyMap)
    /\ data = <<>>
    /\ out = NoOut

NextCond ==
    \/ NewCondLeaf
    \/ NewCondLeafLayer
    \/ NewCondBernoulliLayer
    \/ RetrieveCondParams

SpecCond == InitCond /\ [][NextCond]_vars

----------------------------------------------------------------------------
(* Properties of conditional leaves *)

\* C21: a conditional univariate leaf is constructed only with a scope of
\* exactly one query variable and at least one evidence variable; a scope with
\* no or several query variables, or without evidence, is rejected.
C21_CondLeafScope ==
    (Called("CondLeaf") /\ ~out.err) =>
        /\ Len(LastCall.sc[1].query) = 1
        /\ Len(LastCall.sc[1].evidence) >= 1

\* the range of a parameter entry of a conditional leaf: the rate of the
\* univariate leaf and a standard deviation are greater than 0, a mean is any
\* number, a success probability lies in [0, 1]
InRange(kind, k, x) ==
    /\ isfinite(x)
    /\ CASE kind = "CondLeaf" -> RLess(RZero, x)
         [] kind = "CondLeafLayer" -> (k = 2 => RLess(RZero, x))
         [] OTHER -> RLeq(RZero, x) /\ RLeq(x, ROne)

\* C22: retrieve_params of a conditional leaf or leaf layer fails whenever an
\* entry of a retrieved parameter is NaN, infinite or outside the range of the
\* parameter, for every output of a layer.
C22_InvalidParamsFail ==
    (out.op = "retrieve_params" /\ ~out.err) =>
        \A k \in 1..Len(out.val) : \A j \in 1..Len(out.val[k]) :
            InRange(heap[out.root].kind, k, out.val[k][j])

----------------------------------------------------------------------------
(* Swappable operations.  A positional argument is a module of the heap, a  *)
(* dispatch context (told apart by its funcs table) or some other value;    *)
(* kwargs either has no dispatch_ctx, or None, or a dispatch context.       *)

ModuleArg(n) == [tag |-> "module", id |-> n, funcs |-> EmptyMap]
CtxArg(funcs) == [tag |-> "ctx", id |-> None, funcs |-> funcs]
OtherArg == [tag |-> "other", id |-> None, funcs |-> EmptyMap]

NoKwargs == [has |-> FALSE, none |-> FALSE, funcs |-> EmptyMap]
KwNone == [has |-> TRUE, none |-> TRUE, funcs |-> EmptyMap]
KwCtx(funcs) == [has |-> TRUE, none |-> FALSE, funcs |-> funcs]

\* default_dispatch_context(), and a context with a funcs table
DispatchContext(h, funcs) ==
    [args |-> EmptyMap, cache |-> EmptyMap, calls |-> [i \in 1..Len(h) |-> 0],
     funcs |-> funcs]

\* a lookup that ignores the funcs table
swap_never(funcs, type, f) == f
\* _f = dispatch_ctx.funcs[type(key)] if type(key) in dispatch_ctx.funcs else f
swap(funcs, type, f) == IF type \in DOMAIN funcs THEN funcs[type] ELSE f

SwapRaised(h, e) ==
    [err |-> e, ran |-> "", args |-> <<>>, kwargs |-> NoKwargs,
     dispatch_ctx |-> DispatchContext(h, EmptyMap)]

\* swappable_f(*args, **kwargs) of a function f: the function that ran and the
\* arguments it was called with, or the error raised
swappable(h, f, args, kwargs) ==
    LET key == args[1]
        found == SelectSeq(args, LAMBDA a : a.tag = "ctx")
        _args == SelectSeq(args, LAMBDA a : a.tag # "ctx")
    IN IF key.tag # "module" THEN SwapRaised(h, "ValueError")
       ELSE IF ~kwargs.has /\ Len(found) > 1 THEN SwapRaised(h, "LookupError")
       ELSE LET kw == IF ~kwargs.has /\ Len(found) = 1 THEN KwCtx(found[1].funcs)
                      ELSE kwargs
                pos == IF kwargs.has THEN args ELSE _args
                dispatch_ctx == IF kw.has /\ ~kw.none THEN DispatchContext(h, kw.funcs)
                                ELSE DispatchContext(h, EmptyMap)
            IN [err |-> "", ran |-> swap(dispatch_ctx.funcs, h[key.id].kind, f),
                args |-> pos, kwargs |-> kw, dispatch_ctx |-> dispatch_ctx]

ScriptsSwap ==
    { <<NewLeafCall(0, Q(1, 2))>>,
      <<NewLeafCall(0, Q(1, 3)), NewLeafCall(0, Q(3, 4)),
        NewSumCall(<<1, 2>>, <<Q(3, 10), Q(7, 10)>>)>>,
      <<NewLeafCall(0, Q(1, 3)), NewLeafCall(1, Q(3, 4)), NewProductCall(<<1, 2>>)>> }

\* funcs tables: a substitute for none, one or two of the module types
FuncTables ==
    UNION {[ts -> {"g", "h"}] : ts \in SUBSET {"Leaf", "Sum"}}

\* argument lists: the key first, then other arguments and dispatch contexts
ArgLists(h) ==
    LET keys == {ModuleArg(n) : n \in 1..Len(h)} \cup {OtherArg}
        ctxs == {CtxArg(fs) : fs \in FuncTables}
    IN {<<k>> : k \in keys \cup {CtxArg(EmptyMap)}}
       \cup {<<k, a>> : k \in keys, a \in ctxs \cup {OtherArg}}
       \cup {<<k, OtherArg, c>> : k \in keys, c \in ctxs}
       \cup {<<k, c, CtxArg(("Leaf" :> "h"))>> : k \in keys, c \in ctxs}

KwargsSet == {NoKwargs, KwNone} \cup {KwCtx(fs) : fs \in FuncTables}

\* a call of an operation decorated with swappable, default implementation "f"
CallSwappable ==
    /\ Built /\ out.op = "construct" /\ ~out.err
    /\ \E args \in ArgLists(heap), kwargs \in KwargsSet :
          \E r \in {swappable(heap, "f", args, kwargs)} :
             /\ ctx' = r.dispatch_ctx
             /\ out' = [NoOut EXCEPT !.op = "swappable", !.err = r.err # "",
                                     !.val = <<args, kwargs, r>>]
    /\ UNCHANGED <<heap, script, pc, data>>

InitSwap ==
    /\ script \in ScriptsSwap
    /\ heap = <<>>
    /\ pc = 0
    /\ ctx = NewCtx(<<>>, EmptyMap)
    /\ data = <<>>
    /\ out = NoOut

NextSwap ==
    \/ NewLeaf
    \/ NewSumNode
    \/ NewProductNode
    \/ CallSwappable

SpecSwap == InitSwap /\ [][NextSwap]_vars

\* the dispatch contexts a call was given, by keyword or by position
GivenContexts(args, kwargs) ==
    IF kwargs.has THEN (IF kwargs.none THEN {} ELSE {kwargs.funcs})
    ELSE {args[i].funcs : i \in {j \in 1..Len(args) : args[j].tag = "ctx"}}

\* C23: a swappable operation called on a node runs the function registered in
\* the funcs table of the call's dispatch context for the type of the node when
\* there is one, and the default implementation otherwise (no context given:
\* the default context, with an empty table).
C23_SwapRunsRegistered ==
    (out.op = "swappable" /\ ~out.err) =>
        LET args == out.val[1]
            kwargs == out.val[2]
            ran == out.val[3].ran
            type == heap[args[1].id].kind
        IN /\ args[1].tag = "module"
           /\ \A funcs \in GivenContexts(args, kwargs) :
                 /\ type \in DOMAIN funcs => ran = funcs[type]
                 /\ type \notin DOMAIN funcs => ran = "f"
           /\ GivenContexts(args, kwargs) = {} => ran = "f"

\* a call on a sum node ran the substitute registered for sum nodes, given in
\* a positional dispatch context
C23_Witness ==
    /\ out.op = "swappable" /\ ~out.err
    /\ ~out.val[2].has
    /\ heap[out.val[1][1].id].kind = "Sum"
    /\ out.val[3].ran = "g"

----------------------------------------------------------------------------
(* Maximum-likelihood estimation of count leaves.  A Poisson leaf has the   *)
(* parameter <<l>>, a Poisson layer one rate per output, a negative         *)
(* binomial leaf the parameters <<n, p>>.                                   *)

\* Poisson.set_params: the rate is finite and not negative
Poisson_valid(l) == isfinite(l) /\ ~RLess(l, RZero)
\* NegativeBinomial.set_params: p in (0, 1], n a non-negative integer
NegativeBinomial_valid(n, p) ==
    /\ ~(leq_zero(p) \/ RLess(ROne, p) \/ ~isfinite(p))
    /\ n >= 0

\* Poisson.__init__
Poisson(h, sc, l) ==
    IF Len(sc.query) # 1 THEN Raised(h)
    ELSE IF Len(sc.evidence) # 0 THEN Raised(h)
    ELSE IF ~Poisson_valid(l) THEN Raised(h)
    ELSE Created(h, MkModule("Poisson", <<sc>>, <<>>, <<>>, <<l>>, NoCondF))

\* PoissonLayer.__init__ with a list of scopes: one Poisson leaf per scope
PoissonLayer(h, scopes, ls) ==
    IF Len(scopes) = 0 THEN Raised(h)
    ELSE IF \E j \in 1..Len(scopes) : ~Poisson(h, scopes[j], ls[j]).ok THEN Raised(h)
    ELSE Created(h, MkModule("PoissonLayer", scopes, <<>>, <<>>, ls, NoCondF))

\* NegativeBinomial.__init__
NegativeBinomial(h, sc, n, p) ==
    IF Len(sc.query) # 1 THEN Raised(h)
    ELSE IF Len(sc.evidence) # 0 THEN Raised(h)
    ELSE IF ~NegativeBinomial_valid(n, p) THEN Raised(h)
    ELSE Created(h, MkModule("NegativeBinomial", <<sc>>, <<>>, <<>>, <<Q(n, 1), p>>, NoCondF))

\* check_support of a count leaf, one entry: NaN, or an integer that is >= 0
check_support_count(x) == x = NaN \/ x >= 0

\* the values the estimates are moved to at the ends of the range
Eps == <<1, 100000000>>
OneMinusEps == <<99999999, 100000000>>
\* torch.isclose(x, y) for y = 0.0 or y = 1.0: |x - y| <= atol + rtol * |y|,
\* with atol = 1e-08 and rtol = 1e-05
isclose(x, y) ==
    LET d == RSub(x, y)
        tol == IF y = RZero THEN <<1, 100000000>> ELSE <<1001, 100000000>>
    IN RLeq(IF RLess(d, RZero) THEN RSub(RZero, d) ELSE d, tol)

\* one test for the whole tensor: torch.allclose(l_est, torch.tensor(0.0))
zero_mask_allclose(l_est) ==
    [j \in 1..Len(l_est) |-> \A k \in 1..Len(l_est) : isclose(l_est[k], RZero)]

\* the column of a variable, its entries that are not NaN, sum and mean
Column(dat, v) == [r \in 1..Len(dat) |-> dat[r][v + 1]]
NotNaN(col) == SelectSeq(col, LAMBDA x : x # NaN)
RECURSIVE IntSum(_)
IntSum(col) == IF col = <<>> THEN 0 ELSE Head(col) + IntSum(Tail(col))
Mean(col) == Rat(IntSum(col), Len(col))

MLEError(h) == [err |-> TRUE, heap |-> h]
MLEDone(h, n, params) == [err |-> FALSE, heap |-> [h EXCEPT ![n].params = params]]

\* the checks of the data that all three estimators start with: [err, cols],
\* cols the data the estimate is computed from, one column per output
mle_data(m, dat, nan_strategy) ==
    LET cols == [j \in 1..n_out(m) |-> Column(dat, m.scopes_out[j].query[1])]
        all == Flatten(cols)
    IN IF \E k \in 1..Len(all) : ~check_support_count(all[k])
       THEN [err |-> TRUE, cols |-> <<>>]
       ELSE IF \E j \in 1..Len(cols) : NotNaN(cols[j]) = <<>>
       THEN [err |-> TRUE, cols |-> <<>>]
       ELSE IF nan_strategy = "None" /\ NotNaN(all) # all
       THEN [err |-> TRUE, cols |-> <<>>]
       ELSE IF nan_strategy = "ignore"
       THEN [err |-> FALSE, cols |-> [j \in 1..Len(cols) |-> NotNaN(cols[j])]]
       ELSE IF nan_strategy = "None" THEN [err |-> FALSE, cols |-> cols]
       ELSE [err |-> TRUE, cols |-> <<>>]

\* maximum_likelihood_estimation of a Poisson leaf
maximum_likelihood_estimation_Poisson(h, n, dat, nan_strategy) ==
    LET d == mle_data(h[n], dat, nan_strategy)
    IN IF d.err THEN MLEError(h)
       ELSE LET l_est == Mean(d.cols[1])
                l == IF isclose(l_est, RZero) THEN Eps ELSE l_est
            IN IF Poisson_valid(l) THEN MLEDone(h, n, <<l>>) ELSE MLEError(h)

\* maximum_likelihood_estimation of a Poisson layer
maximum_likelihood_estimation_PoissonLayer(h, n, dat, nan_strategy) ==
    LET d == mle_data(h[n], dat, nan_strategy)
    IN IF d.err THEN MLEError(h)
       ELSE LET l_est == [j \in 1..Len(d.cols) |-> Mean(d.cols[j])]
                mask == zero_mask_allclose(l_est)
                l == [j \in 1..Len(l_est) |-> IF mask[j] THEN Eps ELSE l_est[j]]
            IN IF \A j \in 1..Len(l) : Poisson_valid(l[j])
               THEN MLEDone(h, n, l) ELSE MLEError(h)

\* maximum_likelihood_estimation of a negative binomial leaf
maximum_likelihood_estimation_NegativeBinomial(h, n, dat, nan_strategy) ==
    LET d == mle_data(h[n], dat, nan_strategy)
        leaf_n == h[n].params[1][1]
    IN IF d.err THEN MLEError(h)
       ELSE LET n_total == Len(d.cols[1]) * leaf_n
                n_success == IntSum(d.cols[1])
                p_est == IF n_total = 0 THEN NaNQ ELSE Rat(n_success, n_total)
                p == IF isnan(p_est) THEN p_est
                     ELSE IF isclose(p_est, RZero) THEN Eps
                     ELSE IF isclose(p_est, ROne) THEN OneMinusEps
                     ELSE p_est
            IN IF NegativeBinomial_valid(leaf_n, p)
               THEN MLEDone(h, n, <<Q(leaf_n, 1), p>>) ELSE MLEError(h)

maximum_likelihood_estimation(h, n, dat, nan_strategy) ==
    CASE h[n].kind = "Poisson" -> maximum_likelihood_estimation_Poisson(h, n, dat, nan_strategy)
      [] h[n].kind = "PoissonLayer" ->
            maximum_likelihood_estimation_PoissonLayer(h, n, dat, nan_strategy)
      [] OTHER -> maximum_likelihood_estimation_NegativeBinomial(h, n, dat, nan_strategy)

NewCountLeafCall(op, vs, ps, n) ==
    [op |-> op, sc |-> [j \in 1..Len(vs) |-> Var(vs[j])], ch |-> <<>>, w |-> W1(<<>>),
     p |-> ps, cf |-> NoCondF, n |-> n]

NewPoisson ==
    /\ Building /\ NextCall.op = "Poisson"
    /\ Constructed(Poisson(heap, NextCall.sc[1], NextCall.p[1]))

NewPoissonLayer ==
    /\ Building /\ NextCall.op = "PoissonLayer"
    /\ Constructed(PoissonLayer(heap, NextCall.sc, NextCall.p))

NewNegativeBinomial ==
    /\ Building /\ NextCall.op = "NegativeBinomial"
    /\ Constructed(NegativeBinomial(heap, NextCall.sc[1], NextCall.n, NextCall.p[1]))

ScriptsMLE ==
    { <<NewCountLeafCall("Poisson", <<0>>, <<Q(1, 1)>>, 1)>>,
      <<NewCountLeafCall("PoissonLayer", <<0, 1>>, <<Q(1, 1), Q(3, 2)>>, 2)>>,
      <<NewCountLeafCall("NegativeBinomial", <<0>>, <<Q(1, 2)>>, 1)>>,
      <<NewCountLeafCall("NegativeBinomial", <<0>>, <<Q(1, 2)>>, 2)>> }

\* data entries: counts, NaN, and a negative number outside the support
BatchesMLE(ncols) == UNION {[1..k -> [1..ncols -> Vals \cup {-2}]] : k \in 1..MaxRows}

\* a call of maximum_likelihood_estimation on a leaf or leaf layer
MaximumLikelihoodEstimation ==
    /\ Built /\ out.op = "construct" /\ ~out.err
    /\ \E n \in 1..Len(heap), dat \in BatchesMLE(NumCols(heap)),
          nan_strategy \in {"None", "ignore", "mean"} :
          \E r \in {maximum_likelihood_estimation(heap, n, dat, nan_strategy)} :
             /\ heap' = r.heap
             /\ data' = dat
             /\ out' = [NoOut EXCEPT !.op = "maximum_likelihood_estimation", !.root = n,
                                     !.err = r.err]
    /\ UNCHANGED <<script, pc, ctx>>

InitMLE ==
    /\ script \in ScriptsMLE
    /\ heap = <<>>
    /\ pc = 0
    /\ ctx = NewCtx(<<>>, EmptyMap)
    /\ data = <<>>
    /\ out = NoOut

NextMLE ==
    \/ NewPoisson
    \/ NewPoissonLayer
    \/ NewNegativeBinomial
    \/ MaximumLikelihoodEstimation

SpecMLE == InitMLE /\ [][NextMLE]_vars

\* C24: after maximum-likelihood estimation on data of the support, every
\* estimated parameter is strictly inside its range: a success probability is
\* greater than 0 and less than 1, a rate is greater than 0, for every output
\* of a leaf layer.
C24_EstimatesInsideRange ==
    (out.op = "maximum_likelihood_estimation" /\ ~out.err) =>
        LET m == heap[out.root]
        IN IF m.kind = "NegativeBinomial"
           THEN RLess(RZero, m.params[2]) /\ RLess(m.params[2], ROne)
           ELSE \A j \in 1..Len(m.params) : RLess(RZero, m.params[j])

----------------------------------------------------------------------------
(* Expectation maximization: the loop of evaluations and parameter updates  *)

\* largest max_steps argument
MaxSteps == 2

\* a local variable of a function: unbound until its first assignment
Unbound == [bound |-> FALSE, v |-> 0]
Bound(v) == [bound |-> TRUE, v |-> v]

\* acc_ll / data.shape[0]: the accumulated log-likelihood and the divisor
AvgLL(acc_ll, rows) == [acc |-> acc_ll, rows |-> rows]
\* -inf, the first prev_avg_ll
MinusInf == AvgLL(Log(RZero), 1)
\* avg_ll <= prev_avg_ll, both over the same number of rows
avg_leq(a, b) == RLeq(Exp(a.acc), Exp(b.acc))

\* em(module, data, dispatch_ctx): the update of the parameters, a learning
\* collaborator; the structure of the circuit is kept
em(h, root, dat, st) == h

EMResult(e, h, hist, n_updates) ==
    [err |-> e, heap |-> h, ll_history |-> hist, n_updates |-> n_updates]

\* the while loop of expectation_maximization, from one evaluation on
RECURSIVE em_loop(_, _, _, _, _, _, _, _)
em_loop(h, root, dat, max_steps, prev_avg_ll, ll_history, n_steps, n_updates) ==
    LET r == log_likelihood(h, root, dat, TRUE, NewCtx(h, EmptyMap))
    IN IF r.err THEN EMResult("ValueError", h, ll_history, n_updates)
       ELSE LET acc_ll == LogRowSum(Flatten(r.val))
                avg_ll == AvgLL(acc_ll, Len(dat))
                hist == Append(ll_history, avg_ll)
            IN IF ~n_steps.bound
               THEN EMResult("UnboundLocalError", h, hist, n_updates)
               ELSE IF n_steps.v = max_steps \/ avg_leq(avg_ll, prev_avg_ll)
               THEN EMResult("", h, hist, n_updates)
               ELSE em_loop(em(h, root, dat, r.st), root, dat, max_steps, avg_ll, hist,
                            Bound(n_steps.v + 1), n_updates + 1)

\* expectation_maximization(module, data, max_steps): n_steps has no value
\* when the loop starts
expectation_maximization(h, root, dat, max_steps) ==
    em_loop(h, root, dat, max_steps, MinusInf, <<>>, Unbound, 0)

ScriptsEM ==
    { <<NewLeafCall(0, Q(1, 2))>>,
      <<NewLeafCall(0, Q(1, 3)), NewLeafCall(0, Q(3, 4)),
        NewSumCall(<<1, 2>>, <<Q(3, 10), Q(7, 10)>>)>>,
      <<NewLeafCall(0, Q(1, 3)), NewLeafCall(1, Q(3, 4)), NewProductCall(<<1, 2>>)>>,
      <<NewLeafLayerCall(<<0, 0>>, <<Q(1, 3), Q(3, 4)>>),
        NewSumCall(<<1>>, <<Q(3, 10), Q(7, 10)>>)>> }

\* a call of expectation_maximization on the root of a circuit
ExpectationMaximization ==
    /\ Built /\ out.op = "construct" /\ ~out.err
    /\ \E root \in Roots(heap), dat \in Batches(NumCols(heap)), max_steps \in 0..MaxSteps :
          \E r \in {expectation_maximization(heap, root, dat, max_steps)} :
             /\ heap' = r.heap
             /\ data' = dat
             /\ out' = [NoOut EXCEPT !.op = "expectation_maximization", !.root = root,
                                     !.err = r.err # "", !.val = r.ll_history,
                                     !.ids = <<max_steps, r.n_updates>>]
    /\ UNCHANGED <<script, pc, ctx>>

InitEM ==
    /\ script \in ScriptsEM
    /\ heap = <<>>
    /\ pc = 0
    /\ ctx = NewCtx(<<>>, EmptyMap)
    /\ data = <<>>
    /\ out = NoOut

NextEM ==
    \/ NewLeaf
    \/ NewLeafLayer
    \/ NewSumNode
    \/ NewProductNode
    \/ ExpectationMaximization

SpecEM == InitEM /\ [][NextEM]_vars

\* C25: expectation_maximization with max_steps = k >= 0, on data the circuit
\* can be evaluated on, terminates after at most k parameter updates and returns
\* the average log-likelihood of every iteration it performed (one more
\* evaluation than updates).
C25_EMReturnsHistory ==
    (/\ out.op = "expectation_maximization"
     /\ ~log_likelihood(heap, out.root, data, TRUE, NewCtx(heap, EmptyMap)).err) =>
        /\ ~out.err
        /\ out.ids[2] <= out.ids[1]
        /\ Len(out.val) = out.ids[2] + 1

----------------------------------------------------------------------------
(* Properties of marginalization: conditional layers, invariants, products *)

\* C27: marginalizing a conditional leaf layer over variables none of which is
\* in its scope returns the layer unaltered: same output scopes, same number
\* of outputs, same cond_f.
C27_DisjointKeepsCondLayer ==
    (/\ Marginalized
     /\ heap[out.root].kind \in {"CondLeafLayer", "CondBernoulliLayer"}
     /\ Disjoint(heap[out.root], out.rvs)) =>
        /\ ~out.err /\ out.res # None
        /\ heap[out.res].scopes_out = heap[out.root].scopes_out
        /\ n_out(heap[out.res]) = n_out(heap[out.root])
        /\ heap[out.res].cond_f = heap[out.root].cond_f

\* the circuit below n is made of sum and product nodes, sum layers and
\* univariate leaves and leaf layers
PlainCircuit(h, n) ==
    \A i \in Reach(h, n) : h[i].kind \in {"Leaf", "LeafLayer", "Sum", "Product", "SumLayer"}

\* the construction invariants of module n
Invariants(h, n) ==
    LET m == h[n]
        ss == ChildScopes(h, m.children)
    IN CASE m.kind = "Sum" ->
              /\ Len(weights(m)) = Len(ss)
              /\ \A i, j \in 1..Len(ss) : equal_query(ss[i], ss[j])
         [] m.kind = "SumLayer" ->
              /\ \A k \in 1..Len(weights(m)) : Len(weights(m)[k]) = Len(ss)
              /\ \A i, j \in 1..Len(ss) : equal_query(ss[i], ss[j])
         [] m.kind = "Product" ->
              \A i, j \in 1..Len(ss) : i # j => isdisjoint(ss[i], ss[j])
         [] OTHER -> TRUE

\* C28: for a circuit of sum and product nodes, sum layers and leaves, every
\* eliminated variable set and prune setting, marginalize completes without
\* raising and returns null or a circuit that satisfies the construction
\* invariants again.
C28_MarginalizeKeepsInvariants ==
    (Marginalized /\ PlainCircuit(heap, out.root)) =>
        /\ ~out.err
        /\ out.res # None => \A n \in Reach(heap, out.res) : Invariants(heap, n)

\* C29: marginalizing a product node returns null or a module with exactly one
\* output, whose scope is the scope of the product node without the eliminated
\* variables, for either prune setting.
C29_ProductKeepsOneOutput ==
    (Marginalized /\ ~out.err /\ heap[out.root].kind = "Product" /\ out.res # None) =>
        /\ n_out(heap[out.res]) = 1
        /\ Vars(scope(heap[out.res])) = Vars(scope(heap[out.root])) \ out.rvs

----------------------------------------------------------------------------
(* set_params of leaves and leaf layers.  Each variant returns [err,        *)
(* params]: whether the call raised, and the parameters the object holds    *)
(* when the call returns or raises.                                         *)

SetResult(err, params) == [err |-> err, params |-> params]

\* the values of n over the same variable are identical
same_scope_n(scopes, n) ==
    \A i \in 1..Len(scopes), j \in 1..Len(scopes) :
        scopes[i].query[1] = scopes[j].query[1] => n[i] = n[j]

\* for node_n, node_p, node in zip(n, p, self.nodes): node.set_params(node_n,
\* node_p): a node that accepts its values is changed before the next is tried
RECURSIVE set_params_nodes(_, _, _, _)
set_params_nodes(params, n, p, j) ==
    IF j > Len(n) THEN SetResult(FALSE, params)
    ELSE IF ~NegativeBinomial_valid(n[j], p[j]) THEN SetResult(TRUE, params)
    ELSE set_params_nodes(<<[params[1] EXCEPT ![j] = n[j]],
                            [params[2] EXCEPT ![j] = p[j]]>>, n, p, j + 1)

\* base NegativeBinomialLayer.set_params: params = <<n of the nodes, p of the
\* nodes>>
set_params_NegativeBinomialLayer_base(m, n_arg, p_arg) ==
    LET n == AsArray(n_arg, Len(m.scopes_out))
        p == AsArray(p_arg, Len(m.scopes_out))
    IN IF Len(n) # Len(m.scopes_out) THEN SetResult(TRUE, m.params)
       ELSE IF Len(p) # Len(m.scopes_out) THEN SetResult(TRUE, m.params)
       ELSE LET r == set_params_nodes(m.params, n, p, 1)
            IN IF r.err THEN r
               ELSE IF ~same_scope_n(m.scopes_out, n) THEN SetResult(TRUE, r.params)
               ELSE r

\* torch NegativeBinomialLayer.set_params and the setter of p: params = <<n, p>>
\* (p is stored through proj_bounded_to_real and read back through
\* proj_real_to_bounded, which returns the value that was stored)
set_params_NegativeBinomialLayer(m, n_arg, p_arg) ==
    LET n_out_ == Len(m.scopes_out)
        n == AsArray(n_arg, n_out_)
        p0 == AsArray(p_arg, n_out_)
        p == IF Len(p0) = 1 THEN [j \in 1..n_out_ |-> p0[1]] ELSE p0
    IN IF Len(n) # n_out_ THEN SetResult(TRUE, m.params)
       ELSE IF \E j \in 1..Len(n) : n[j] < 0 THEN SetResult(TRUE, m.params)
       ELSE IF ~same_scope_n(m.scopes_out, n) THEN SetResult(TRUE, m.params)
       ELSE IF Len(p) # n_out_ THEN SetResult(TRUE, m.params)
       ELSE IF \/ \E j \in 1..Len(p) : RLess(p[j], RZero) \/ RLess(ROne, p[j])
               \/ ~\A j \in 1..Len(p) : isfinite(p[j])
       THEN SetResult(TRUE, m.params)
       ELSE SetResult(FALSE, <<n, p>>)

\* torch MultivariateGaussian.set_params: params = <<mean, lower triangular
\* factor>>; the mean is assigned before the covariance matrix is examined
set_params_MultivariateGaussian(m, mean, cov) ==
    LET d == Len(m.scopes_out[1].query)
    IN IF \E i \in 1..Len(mean) : ~isfinite(mean[i]) THEN SetResult(TRUE, m.params)
       ELSE IF Len(mean) # d THEN SetResult(TRUE, m.params)
       ELSE IF Len(cov) # d \/ \E i \in 1..Len(cov) : Len(cov[i]) # d
       THEN SetResult(TRUE, m.params)
       ELSE LET assigned == <<mean, m.params[2]>>
            IN IF \E i \in 1..d, j \in 1..d : ~isfinite(cov[i][j])
               THEN SetResult(TRUE, assigned)
               ELSE IF cholesky(cov) = <<>> THEN SetResult(TRUE, assigned)
               ELSE SetResult(FALSE, <<mean, cholesky(cov)>>)

\* base NegativeBinomialLayer.__init__: nodes NegativeBinomial(s, 1, 0.5), then
\* set_params(n, p)
NegativeBinomialLayer_base(h, scopes, n_arg, p_arg) ==
    IF Len(scopes) = 0 THEN Raised(h)
    ELSE IF \E j \in 1..Len(scopes) : Len(scopes[j].query) # 1 \/ Len(scopes[j].evidence) # 0
    THEN Raised(h)
    ELSE LET m == MkModule("NegativeBinomialLayer_base", scopes, <<>>, <<>>,
                           <<[j \in 1..Len(scopes) |-> 1],
                             [j \in 1..Len(scopes) |-> Q(1, 2)]>>, NoCondF)
             r == set_params_NegativeBinomialLayer_base(m, n_arg, p_arg)
         IN IF r.err THEN Raised(h) ELSE Created(h, [m EXCEPT !.params = r.params])

\* torch NegativeBinomialLayer.__init__: empty n and p, then set_params(n, p)
NegativeBinomialLayer(h, scopes, n_arg, p_arg) ==
    IF Len(scopes) = 0 THEN Raised(h)
    ELSE IF \E j \in 1..Len(scopes) : Len(scopes[j].query) # 1 THEN Raised(h)
    ELSE LET m == MkModule("NegativeBinomialLayer", scopes, <<>>, <<>>,
                           <<<<>>, <<>>>>, NoCondF)
             r == set_params_NegativeBinomialLayer(m, n_arg, p_arg)
         IN IF r.err THEN Raised(h) ELSE Created(h, [m EXCEPT !.params = r.params])

NewNegativeBinomialLayer_base ==
    /\ Building /\ NextCall.op = "NegativeBinomialLayer_base"
    /\ Constructed(NegativeBinomialLayer_base(heap, NextCall.sc, NextCall.p[1], NextCall.p[2]))

NewNegativeBinomialLayer ==
    /\ Building /\ NextCall.op = "NegativeBinomialLayer"
    /\ Constructed(NegativeBinomialLayer(heap, NextCall.sc, NextCall.p[1], NextCall.p[2]))

\* leaves and leaf layers over two outputs, also two outputs over one variable
ScriptsSet ==
    { <<NewCountLeafCall(op, vs, <<Array(<<2, 2>>), Scalar(Q(1, 4))>>, 2)>> :
        op \in {"NegativeBinomialLayer_base", "NegativeBinomialLayer"},
        vs \in {<<0, 1>>, <<0, 0>>} }
    \cup { <<NewMVGCall(<<0, 1>>, Mean2, Cov2)>> }

\* arguments of set_params: valid ones, values out of range, NaN, infinity,
\* wrong lengths, a matrix that is not positive definite
NArgs == {Scalar(3), Array(<<3, 1>>), Array(<<1, -1>>), Array(<<1>>)}
PArgs ==
    {Scalar(Q(3, 4)), Array(<<Q(1, 3), Q(3, 2)>>), Array(<<Q(1, 3), Q(0, 1)>>),
     Array(<<Q(1, 3), NaNQ>>), Array(<<Q(1, 3)>>)}
MeanArgs == {<<Q(0, 1), Q(5, 1)>>, <<Q(3, 1), Inf>>, <<Q(3, 1), NaNQ>>, Mean3}
CovArgs ==
    { << <<Q(1, 1), Q(0, 1)>>, <<Q(0, 1), Q(9, 1)>> >>,
      << <<Q(1, 1), Q(2, 1)>>, <<Q(2, 1), Q(1, 1)>> >>,
      << <<Q(1, 1), NaNQ>>, <<NaNQ, Q(1, 1)>> >>,
      << <<Inf, Q(0, 1)>>, <<Q(0, 1), Q(1, 1)>> >>,
      Cov3 }

\* the argument pairs of set_params for module m
SetArgs(m) == IF m.kind = "MVG" THEN MeanArgs \X CovArgs ELSE NArgs \X PArgs

\* set_params of the leaf or leaf layer, by its class
set_params(m, a, b) ==
    CASE m.kind = "MVG" -> set_params_MultivariateGaussian(m, a, b)
      [] m.kind = "NegativeBinomialLayer_base" -> set_params_NegativeBinomialLayer_base(m, a, b)
      [] m.kind = "NegativeBinomialLayer" -> set_params_NegativeBinomialLayer(m, a, b)

\* a call of set_params on the leaf or leaf layer; out.val holds the
\* parameters before the call
SetParams ==
    /\ Built /\ out.op \in {"construct", "set_params"} /\ Len(heap) > 0
    /\ \E n \in 1..Len(heap) : \E args \in SetArgs(heap[n]) :
          \E r \in {set_params(heap[n], args[1], args[2])} :
             /\ heap' = [heap EXCEPT ![n].params = r.params]
             /\ out' = [NoOut EXCEPT !.op = "set_params", !.root = n, !.err = r.err,
                                     !.val = <<heap[n].params>>]
    /\ UNCHANGED <<script, pc, ctx, data>>

InitSet ==
    /\ script \in ScriptsSet
    /\ heap = <<>>
    /\ pc = 0
    /\ ctx = NewCtx(<<>>, EmptyMap)
    /\ data = <<>>
    /\ out = NoOut

NextSet ==
    \/ NewNegativeBinomialLayer_base
    \/ NewNegativeBinomialLayer
    \/ NewMultivariateGaussian
    \/ SetParams

SpecSet == InitSet /\ [][NextSet]_vars

\* C30: a set_params call that raises leaves every parameter of the leaf or
\* leaf layer, and of the layer's nodes, as it was before the call.
C30_RaisingSetParamsKeepsParams ==
    (out.op = "set_params" /\ out.err) => heap[out.root].params = out.val[1]

----------------------------------------------------------------------------
(* Marginalization of a RAT-SPN *)

FeatureContext == "FeatureContext"

NewRatSPNCall(region, n_root_nodes, n_region_nodes, n_leaf_nodes) ==
    [op |-> "RatSPN", sc |-> <<>>, ch |-> <<region>>, w |-> W1(<<>>),
     p |-> <<Q(n_region_nodes, 1), Q(n_leaf_nodes, 1)>>, cf |-> NoCondF,
     n |-> n_root_nodes]

NewRatSPN ==
    /\ Building /\ NextCall.op = "RatSPN"
    /\ Constructed(RatSPN(heap, NextCall.ch[1], FeatureContext, NextCall.n,
                          NextCall.p[1][1], NextCall.p[2][1]))

\* a leaf region over one variable; a root region of sums over two partitions
\* of two and of three variables
ScriptsRat ==
    { <<NewLeafLayerCall(<<0, 0>>, <<Q(1, 3), Q(3, 4)>>), NewRatSPNCall(1, 1, 1, 2)>>,
      <<NewLeafCall(0, Q(1, 3)), NewLeafCall(1, Q(1, 2)), NewProductCall(<<1, 2>>),
        NewLeafCall(0, Q(3, 4)), NewLeafCall(1, Q(1, 4)), NewProductCall(<<4, 5>>),
        NewSumLayerCall(2, <<3, 6>>, << <<Q(1, 2), Q(1, 2)>>, <<Q(1, 4), Q(3, 4)>> >>),
        NewRatSPNCall(7, 2, 1, 1)>>,
      <<NewLeafLayerCall(<<0, 1>>, <<Q(1, 3), Q(3, 4)>>), NewLeafCall(2, Q(1, 2)),
        NewProductCall(<<1, 2>>),
        NewLeafLayerCall(<<1, 2>>, <<Q(1, 4), Q(2, 3)>>), NewLeafCall(0, Q(1, 2)),
        NewProductCall(<<4, 5>>),
        NewSumLayerCall(1, <<3, 6>>, << <<Q(1, 2), Q(1, 2)>> >>),
        NewRatSPNCall(7, 1, 1, 1)>> }

InitRat ==
    /\ script \in ScriptsRat
    /\ heap = <<>>
    /\ pc = 0
    /\ ctx = NewCtx(<<>>, EmptyMap)
    /\ data = <<>>
    /\ out = NoOut

NextRat ==
    \/ NewLeaf
    \/ NewLeafLayer
    \/ NewProductNode
    \/ NewSumLayer
    \/ NewRatSPN
    \/ Marginalize

SpecRat == InitRat /\ [][NextRat]_vars

\* C26: marginalizing a RAT-SPN over a variable set that covers its whole
\* scope returns null; over any other variable set it returns a RAT-SPN whose
\* root node is the marginalized root node of the original (a sum node over
\* the remaining variables) and whose root region is that node's child.
C26_MarginalizeRatSPN ==
    (Marginalized /\ heap[out.root].kind = "RatSPN") =>
        IF Vars(scope(heap[out.root])) \subseteq out.rvs
        THEN ~out.err /\ out.res = None
        ELSE /\ ~out.err /\ out.res # None
             /\ heap[out.res].kind = "RatSPN"
             /\ heap[root_node(heap[out.res])].kind = "Sum"
             /\ Vars(scope(heap[root_node(heap[out.res])])) =
                    Vars(scope(heap[out.root])) \ out.rvs
             /\ root_region(heap[out.res]) = heap[root_node(heap[out.res])].children[1]

====
